---- MODULE Spec2Model ----
(***************************************************************************)
(* Model of gosh.Cmd (src/gosh/cmd.go): a handle that starts, supervises   *)
(* and tears down one child process.  Three activities are interleaved:    *)
(* the caller goroutine(s) invoking the handle's methods, the exit-waiter  *)
(* goroutine spawned by startExitWaiter, and the stdout copy that feeds    *)
(* recvWriter.Write.                                                       *)
(*                                                                         *)
(* Critical sections guarded by c.cond.L never block inside (they end in   *)
(* Unlock or in cond.Wait, which releases the lock), so each is one atomic *)
(* action; the steps between them are separate actions.                    *)
(***************************************************************************)
EXTENDS Integers, Sequences, FiniteSets, TLC

VARIABLES
    Path, Args, Vars,   \* Cmd.Path, Cmd.Args, Cmd.Vars
    IgnoreParentExit, ExitAfter, ExitErrorIsOk,
    Stdin,              \* Cmd.Stdin != ""
    PropagateOutput,    \* Cmd.PropagateOutput
    OutputDir,          \* Cmd.OutputDir != ""
    stdinWriteCloser,   \* Cmd.stdinWriteCloser != nil
    calledStart, calledWait, started, exited,
    stdoutWriters, stderrWriters, closers,
    recvReady, recvVars,
    waitChan,           \* buffered channel of terminal results
    calledCleanup,      \* Shell.calledCleanup
    procState,          \* OS process: "none", "running", "terminated"
    exitStatus,         \* status of the terminated process
    copyErr,            \* the stdout copy failed (recvWriter.Write error)
    reaperPc,           \* position of the startExitWaiter goroutine
    waitErr,            \* the goroutine's local waitErr
    pc,                 \* position of each caller goroutine
    want, res,          \* awaitVars locals: wantKeys, res
    ret,                \* what each caller's last operation returned
    closeCalls,         \* number of Close invocations per closer
    procCount,          \* OS processes launched by this handle
    reaperCount,        \* exit-waiter goroutines spawned
    chanWrites,         \* sends performed on waitChan
    chanReads,          \* receives performed on waitChan
    decoded,            \* the variables messages decoded so far, in order
    clones,             \* the handles returned by clone()
    stdinPipes,         \* pipes created by exec.Cmd.StdinPipe
    stdinOpen,          \* the stdin pipe exists and has not been closed
    pipe,               \* per stream, the child's writes not yet copied
    copier,             \* per stream, the copying goroutine of os/exec
    sharedMu,           \* the mutex of the two lockedWriters
    received,           \* per sink, the halves of the writes it has taken
    wrote,              \* per stream, the writes the child has made
    procEnv,            \* c.c.Env: the environment of the launched process
    recv,               \* the recvWriter: buf, readPrefix, skipLine, its error
    sent                \* the bytes written to the recvWriter so far

vars == <<Stdin, PropagateOutput, OutputDir, stdinWriteCloser, calledStart,
          calledWait, started, exited, stdoutWriters, stderrWriters, closers,
          recvReady, recvVars, waitChan, calledCleanup, procState, exitStatus,
          copyErr, reaperPc, waitErr, pc, want, res, ret, closeCalls,
          procCount, reaperCount, chanWrites, chanReads, Path, Args, Vars,
          IgnoreParentExit, ExitAfter, ExitErrorIsOk, decoded, clones,
          stdinPipes, stdinOpen, pipe, copier, sharedMu, received, wrote,
          procEnv, recv, sent>>

cfgVars == <<Path, Args, Vars, IgnoreParentExit, ExitAfter, ExitErrorIsOk,
             Stdin, PropagateOutput, OutputDir>>
ghostVars == <<procCount, reaperCount, chanWrites, chanReads>>
stdinVars == <<stdinPipes, stdinOpen>>
copyVars == <<pipe, copier, sharedMu, received, wrote>>
byteVars == <<recv, sent>>
auxVars == <<stdinVars, copyVars, procEnv, byteVars>>

----------------------------------------------------------------------------
(* Bounds *)

MaxSinks == 2        \* sink registrations made by the caller
MaxCloseCalls == 2   \* Close invocations followed per closer
MaxMsgs == 2         \* variables messages the child sends
MaxClones == 1       \* clone() calls that succeed
MaxWrites == 2       \* writes the child makes to one stream
MaxBytes == 6        \* bytes the child writes to stdout, byte by byte

Keys == {"a", "b"}
Vals == {"1", "2", "3"}
NoVal == "absent"    \* key absent from a Go map
Threads == {"caller", "other"}
Main == "caller"
ExitStatuses == {0, 7}

----------------------------------------------------------------------------
(* Values *)

WaitChanCap == 1

RecvWriterId == "recvWriter"
OsStdout == "os.Stdout"
OsStderr == "os.Stderr"
StdoutFile == "file.stdout"
StderrFile == "file.stderr"
CallerSink == "w1"
OutBuffer == "bytes.Buffer.1"
ErrBuffer == "bytes.Buffer.2"

PipeName(n) == "pipe" \o ToString(n)

AllClosers == {CallerSink, StdoutFile, StderrFile} \cup
              {PipeName(n) : n \in 1..(MaxSinks + 1)}

Range(s) == {s[i] : i \in 1..Len(s)}

EmptyMap == [k \in Keys |-> NoVal]
MapKeys(m) == {k \in Keys : m[k] # NoVal}
GoMaps == [Keys -> Vals \cup {NoVal}]

mergeMapsReplace(dst, src) == src

mergeMapsKeepOld(dst, src) ==
    [k \in Keys |-> IF dst[k] # NoVal THEN dst[k] ELSE src[k]]

\* mergeMaps(dst, src): src's entries overwrite dst's, nothing is deleted
mergeMaps(dst, src) == [k \in Keys |-> IF src[k] # NoVal THEN src[k] ELSE dst[k]]

\* the mappings the child sends in its vars messages
VarsMsgs == {[k \in Keys |-> IF k = "a" THEN "1" ELSE NoVal],
             [k \in Keys |-> IF k = "a" THEN "2" ELSE "3"]}

KeyLists == {<<>>, <<"a">>, <<"a", "a">>, <<"b">>, <<"a", "b">>}

\* lines the child may write to its stdout: a ready message, a vars
\* message, a prefixed line that is not JSON ("bad"), a prefixed line whose
\* type is not known ("unknown"), and a line without the prefix ("plain")
Lines == {[kind |-> "ready", vars |-> EmptyMap],
          [kind |-> "bad", vars |-> EmptyMap],
          [kind |-> "unknown", vars |-> EmptyMap],
          [kind |-> "plain", vars |-> EmptyMap]} \cup
         {[kind |-> "vars", vars |-> m] : m \in VarsMsgs}

Streams == {"stdout", "stderr"}

\* the bytes of the child's stdout: those of the message prefix, two that
\* JSON bodies are made of, and the newline
LF == "LF"
Bytes == {"#", "!", "r", "v", LF}
msgPrefix == <<"#", "!">>

\* a recvWriter as makeStdoutStderr creates it
NoRecv == [buf |-> <<>>, readPrefix |-> FALSE, skipLine |-> FALSE,
           err |-> "nil"]

AllSinks == AllClosers \cup {OsStdout, OsStderr, OutBuffer, ErrBuffer}

NoChunk == [kind |-> "none", vars |-> EmptyMap]

\* a copying goroutine between two writes, after n of them
CopierIdle(n) == [pc |-> "read", line |-> NoChunk, idx |-> 0, half |-> 0,
                  n |-> n]

\* the names of the two environment entries start() maintains
envWatchParent == "envWatchParent"
envExitAfter == "envExitAfter"

EnvKeys == {"HOME", "LANG", envWatchParent, envExitAfter}

NoRet == [op |-> "none", err |-> "nil", val |-> EmptyMap, exited |-> FALSE,
          again |-> FALSE, Err |-> "nil", reported |-> FALSE, sink |-> 0,
          pid |-> 0]

----------------------------------------------------------------------------
(* sync.Cond *)

Blocked == {"awaitReadyBlocked", "awaitVarsBlocked"}
waiters == {t \in Threads : pc[t] \in Blocked}

Woken(p) == IF p = "awaitReadyBlocked" THEN "awaitReadyWoken" ELSE "awaitVarsWoken"

CondSignalLost(p) == {p}

\* cond.Signal(): wakes one goroutine waiting on the condition, if any
CondSignal(p) ==
    LET ws == {t \in Threads : p[t] \in Blocked}
    IN  IF ws = {} THEN {p}
        ELSE {[p EXCEPT ![t] = Woken(p[t])] : t \in ws}

----------------------------------------------------------------------------
(* closeClosers: one Close per distinct closer of the list *)

closeClosersNoDedup(cl, cc) ==
    [w \in AllClosers |->
        cc[w] + Cardinality({i \in 1..Len(cl) : cl[i] = w})]

closeClosers(cl, cc) ==
    [w \in AllClosers |-> IF w \in Range(cl) THEN cc[w] + 1 ELSE cc[w]]

----------------------------------------------------------------------------
\* the configurations the handle is created with
Configs ==
    {[Path |-> "/bin/true", Args |-> <<"/bin/true">>,
      Vars |-> [k \in EnvKeys |-> IF k = "HOME" THEN "/root" ELSE NoVal],
      IgnoreParentExit |-> FALSE, ExitAfter |-> 0, ExitErrorIsOk |-> FALSE,
      Stdin |-> FALSE, PropagateOutput |-> FALSE, OutputDir |-> FALSE],
     [Path |-> "/bin/child", Args |-> <<"/bin/child", "-v">>,
      Vars |-> [k \in EnvKeys |-> IF k = "HOME" THEN "/root" ELSE "C"],
      IgnoreParentExit |-> TRUE, ExitAfter |-> 5, ExitErrorIsOk |-> TRUE,
      Stdin |-> TRUE, PropagateOutput |-> TRUE, OutputDir |-> TRUE]}

\* a handle as newCmdInternal returns it, configured by its creator as cfg
InitFrom(cfg) ==
    /\ Path = cfg.Path /\ Args = cfg.Args /\ Vars = cfg.Vars
    /\ IgnoreParentExit = cfg.IgnoreParentExit
    /\ ExitAfter = cfg.ExitAfter
    /\ ExitErrorIsOk = cfg.ExitErrorIsOk
    /\ Stdin = cfg.Stdin
    /\ PropagateOutput = cfg.PropagateOutput
    /\ OutputDir = cfg.OutputDir
    /\ stdinWriteCloser = FALSE
    /\ calledStart = FALSE /\ calledWait = FALSE
    /\ started = FALSE /\ exited = FALSE
    /\ stdoutWriters = <<>> /\ stderrWriters = <<>> /\ closers = <<>>
    /\ recvReady = FALSE /\ recvVars = EmptyMap
    /\ waitChan = <<>>
    /\ calledCleanup = FALSE
    /\ procState = "none" /\ exitStatus = 0 /\ copyErr = FALSE
    /\ reaperPc = "none" /\ waitErr = "nil"
    /\ pc = [t \in Threads |-> "idle"]
    /\ want = [t \in Threads |-> {}]
    /\ res = [t \in Threads |-> EmptyMap]
    /\ ret = [t \in Threads |-> NoRet]
    /\ closeCalls = [w \in AllClosers |-> 0]
    /\ procCount = 0 /\ reaperCount = 0 /\ chanWrites = 0 /\ chanReads = 0
    /\ decoded = <<>> /\ clones = <<>>
    /\ stdinPipes = 0
    /\ stdinOpen = FALSE
    /\ pipe = [s \in Streams |-> <<>>]
    /\ copier = [s \in Streams |-> CopierIdle(0)]
    /\ sharedMu = "free"
    /\ received = [w \in AllSinks |-> <<>>]
    /\ wrote = [s \in Streams |-> 0]
    /\ procEnv = {}
    /\ recv = NoRecv
    /\ sent = <<>>

Init == \E cfg \in Configs : InitFrom(cfg)

\* the environments, watch settings and durations a handle may be given
EnvConfigs ==
    {[Path |-> "/bin/true", Args |-> <<"/bin/true">>, Vars |-> v,
      IgnoreParentExit |-> i, ExitAfter |-> e, ExitErrorIsOk |-> FALSE,
      Stdin |-> FALSE, PropagateOutput |-> FALSE, OutputDir |-> FALSE] :
        v \in [EnvKeys -> {NoVal, "x"}], i \in BOOLEAN, e \in {0, 5}}

EnvInit == \E cfg \in EnvConfigs : InitFrom(cfg)

----------------------------------------------------------------------------
(* Caller operations.  Return(t, r): the operation returns r to caller t. *)

errorIsOkNilOnly(err) == err = "nil"

\* errorIsOk(err)
errorIsOk(err) == (ExitErrorIsOk /\ err = "ExitError") \/ err = "nil"

handleErrorHidesOkError(err) ==
    [Err |-> IF errorIsOk(err) THEN "nil" ELSE err,
     reported |-> ~errorIsOk(err)]

\* handleError(err), which every exported method applies to the error of
\* the operation: c.Err after the call, and whether the error was passed to
\* the Shell's HandleError
handleError(err) == [Err |-> err, reported |-> ~errorIsOk(err)]

\* a returned error, with the value of c.exited at the return; again: the
\* caller's previous operation was the same one (recorded for wait and for
\* stdinPipe); sink: the pipe returned (its number in order of creation),
\* 0 for none; pid: the value of Pid(), 0 for the other operations
Ret(op, err) == [op |-> op, err |-> err, val |-> EmptyMap, exited |-> exited,
                 again |-> FALSE, Err |-> handleError(err).Err,
                 reported |-> handleError(err).reported, sink |-> 0,
                 pid |-> 0]

Return(t, r) ==
    /\ pc' = [pc EXCEPT ![t] = "idle"]
    /\ ret' = [ret EXCEPT ![t] = r]

Idle(t) == pc[t] = "idle"

addStdoutWriterAnySink(t, wc) ==
    /\ Idle(t)
    /\ IF calledStart THEN
            /\ Return(t, Ret("addStdoutWriter", "errAlreadyCalledStart"))
            /\ UNCHANGED <<stdoutWriters, closers>>
       ELSE /\ Len(closers) < MaxSinks
            /\ stdoutWriters' = Append(stdoutWriters, wc)
            /\ closers' = Append(closers, wc)
            /\ Return(t, Ret("addStdoutWriter", "nil"))
    /\ UNCHANGED <<cfgVars, auxVars, decoded, clones, stdinWriteCloser,
                   calledStart, calledWait, started, exited, stderrWriters,
                   recvReady, recvVars, waitChan, calledCleanup, procState,
                   exitStatus, copyErr, reaperPc, waitErr, want, res,
                   closeCalls, ghostVars>>

\* addStdoutWriter(wc)
addStdoutWriter(t, wc) ==
    /\ Idle(t)
    /\ IF calledStart THEN
            /\ Return(t, Ret("addStdoutWriter", "errAlreadyCalledStart"))
            /\ UNCHANGED <<stdoutWriters, closers>>
       ELSE IF wc = OsStdout THEN
            /\ Return(t, Ret("addStdoutWriter", "errCloseStdout"))
            /\ UNCHANGED <<stdoutWriters, closers>>
       ELSE IF wc = OsStderr THEN
            /\ Return(t, Ret("addStdoutWriter", "errCloseStderr"))
            /\ UNCHANGED <<stdoutWriters, closers>>
       ELSE /\ Len(closers) < MaxSinks
            /\ stdoutWriters' = Append(stdoutWriters, wc)
            /\ closers' = Append(closers, wc)
            /\ Return(t, Ret("addStdoutWriter", "nil"))
    /\ UNCHANGED <<cfgVars, auxVars, decoded, clones, stdinWriteCloser,
                   calledStart, calledWait, started, exited, stderrWriters,
                   recvReady, recvVars, waitChan, calledCleanup, procState,
                   exitStatus, copyErr, reaperPc, waitErr, want, res,
                   closeCalls, ghostVars>>

\* addStderrWriter(wc)
addStderrWriter(t, wc) ==
    /\ Idle(t)
    /\ IF calledStart THEN
            /\ Return(t, Ret("addStderrWriter", "errAlreadyCalledStart"))
            /\ UNCHANGED <<stderrWriters, closers>>
       ELSE IF wc = OsStdout THEN
            /\ Return(t, Ret("addStderrWriter", "errCloseStdout"))
            /\ UNCHANGED <<stderrWriters, closers>>
       ELSE IF wc = OsStderr THEN
            /\ Return(t, Ret("addStderrWriter", "errCloseStderr"))
            /\ UNCHANGED <<stderrWriters, closers>>
       ELSE /\ Len(closers) < MaxSinks
            /\ stderrWriters' = Append(stderrWriters, wc)
            /\ closers' = Append(closers, wc)
            /\ Return(t, Ret("addStderrWriter", "nil"))
    /\ UNCHANGED <<cfgVars, auxVars, decoded, clones, stdinWriteCloser,
                   calledStart, calledWait, started, exited, stdoutWriters,
                   recvReady, recvVars, waitChan, calledCleanup, procState,
                   exitStatus, copyErr, reaperPc, waitErr, want, res,
                   closeCalls, ghostVars>>

\* the pipe a stdoutPipe/stderrPipe call creates: a new object each time
NewBufferedPipe == PipeName(Len(closers) + 1)

\* stdoutPipe()
stdoutPipe(t) ==
    /\ Idle(t)
    /\ IF calledStart THEN
            /\ Return(t, Ret("stdoutPipe", "errAlreadyCalledStart"))
            /\ UNCHANGED <<stdoutWriters, closers>>
       ELSE /\ Len(closers) < MaxSinks
            /\ stdoutWriters' = Append(stdoutWriters, NewBufferedPipe)
            /\ closers' = Append(closers, NewBufferedPipe)
            /\ Return(t, Ret("stdoutPipe", "nil"))
    /\ UNCHANGED <<cfgVars, auxVars, decoded, clones, stdinWriteCloser,
                   calledStart, calledWait, started, exited, stderrWriters,
                   recvReady, recvVars, waitChan, calledCleanup, procState,
                   exitStatus, copyErr, reaperPc, waitErr, want, res,
                   closeCalls, ghostVars>>

\* stderrPipe()
stderrPipe(t) ==
    /\ Idle(t)
    /\ IF calledStart THEN
            /\ Return(t, Ret("stderrPipe", "errAlreadyCalledStart"))
            /\ UNCHANGED <<stderrWriters, closers>>
       ELSE /\ Len(closers) < MaxSinks
            /\ stderrWriters' = Append(stderrWriters, NewBufferedPipe)
            /\ closers' = Append(closers, NewBufferedPipe)
            /\ Return(t, Ret("stderrPipe", "nil"))
    /\ UNCHANGED <<cfgVars, auxVars, decoded, clones, stdinWriteCloser,
                   calledStart, calledWait, started, exited, stdoutWriters,
                   recvReady, recvVars, waitChan, calledCleanup, procState,
                   exitStatus, copyErr, reaperPc, waitErr, want, res,
                   closeCalls, ghostVars>>

stdinPipeUnguarded(t) ==
    /\ Idle(t)
    /\ stdinWriteCloser' = TRUE
    /\ Return(t, Ret("stdinPipe", "nil"))
    /\ UNCHANGED <<cfgVars, auxVars, decoded, clones, calledStart, calledWait,
                   started, exited, stdoutWriters, stderrWriters, closers,
                   recvReady, recvVars, waitChan, calledCleanup, procState,
                   exitStatus, copyErr, reaperPc, waitErr, want, res,
                   closeCalls, ghostVars>>

stdinPipeAlwaysNew(t) ==
    /\ Idle(t)
    /\ IF calledStart THEN
            /\ Return(t, Ret("stdinPipe", "errAlreadyCalledStart"))
            /\ UNCHANGED <<stdinWriteCloser, stdinPipes, stdinOpen>>
       ELSE /\ stdinWriteCloser' = TRUE
            /\ stdinPipes' = stdinPipes + 1
            /\ stdinOpen' = TRUE
            /\ Return(t, [Ret("stdinPipe", "nil") EXCEPT
                             !.sink = stdinPipes + 1,
                             !.again = (ret[t].op = "stdinPipe"
                                        /\ ret[t].err = "nil")])
    /\ UNCHANGED <<cfgVars, procEnv, byteVars, copyVars, decoded, clones,
                   calledStart, calledWait, started, exited, stdoutWriters,
                   stderrWriters, closers, recvReady, recvVars, waitChan,
                   calledCleanup, procState, exitStatus, copyErr, reaperPc,
                   waitErr, want, res, closeCalls, ghostVars>>

\* stdinPipe(): the pipe held in c.stdinWriteCloser is the one created last
stdinPipe(t) ==
    /\ Idle(t)
    /\ IF calledStart THEN
            /\ Return(t, Ret("stdinPipe", "errAlreadyCalledStart"))
            /\ UNCHANGED <<stdinWriteCloser, stdinPipes, stdinOpen>>
       ELSE /\ stdinWriteCloser' = TRUE
            /\ stdinPipes' = IF stdinWriteCloser THEN stdinPipes
                             ELSE stdinPipes + 1
            /\ stdinOpen' = IF stdinWriteCloser THEN stdinOpen ELSE TRUE
            /\ Return(t, [Ret("stdinPipe", "nil") EXCEPT
                             !.sink = stdinPipes',
                             !.again = (ret[t].op = "stdinPipe"
                                        /\ ret[t].err = "nil")])
    /\ UNCHANGED <<cfgVars, procEnv, byteVars, copyVars, decoded, clones,
                   calledStart, calledWait, started, exited, stdoutWriters,
                   stderrWriters, closers, recvReady, recvVars, waitChan,
                   calledCleanup, procState, exitStatus, copyErr, reaperPc,
                   waitErr, want, res, closeCalls, ghostVars>>

\* the caller assigns c.Stdin while configuring the handle
setStdin(t, text) ==
    /\ Idle(t)
    /\ ~calledStart
    /\ Stdin' = text
    /\ UNCHANGED <<Path, Args, Vars, IgnoreParentExit, ExitAfter,
                   ExitErrorIsOk, PropagateOutput, OutputDir, auxVars,
                   decoded, clones, stdinWriteCloser, calledStart, calledWait,
                   started, exited, stdoutWriters, stderrWriters, closers,
                   recvReady, recvVars, waitChan, calledCleanup, procState,
                   exitStatus, copyErr, reaperPc, waitErr, pc, want, res, ret,
                   closeCalls, ghostVars>>

----------------------------------------------------------------------------
(* clone *)

\* copyMap(m): a new map with m's entries
copyMap(m) == [k \in DOMAIN m |-> m[k]]

\* the handle newCmdInternal creates
newCmdInternal(env, path, args) ==
    [Path |-> path, Vars |-> env, Args |-> <<path>> \o args,
     IgnoreParentExit |-> FALSE, ExitAfter |-> 0, PropagateOutput |-> FALSE,
     OutputDir |-> FALSE, ExitErrorIsOk |-> FALSE, Stdin |-> FALSE,
     stdinWriteCloser |-> FALSE, calledStart |-> FALSE, calledWait |-> FALSE,
     started |-> FALSE, exited |-> FALSE, stdoutWriters |-> <<>>,
     stderrWriters |-> <<>>, closers |-> <<>>, recvReady |-> FALSE,
     recvVars |-> EmptyMap, waitChan |-> <<>>]

cloneRejectedAfterStart == calledCleanup \/ calledStart

\* newCmdInternal fails once the Shell has begun its cleanup
cloneRejected == calledCleanup

cloneResultSharingSinks ==
    [newCmdInternal(copyMap(Vars), Path, Tail(Args)) EXCEPT
        !.IgnoreParentExit = IgnoreParentExit,
        !.ExitAfter = ExitAfter,
        !.PropagateOutput = PropagateOutput,
        !.OutputDir = OutputDir,
        !.ExitErrorIsOk = ExitErrorIsOk,
        !.Stdin = Stdin,
        !.stdoutWriters = stdoutWriters,
        !.stderrWriters = stderrWriters,
        !.closers = closers]

\* the handle clone() returns
cloneResult ==
    [newCmdInternal(copyMap(Vars), Path, Tail(Args)) EXCEPT
        !.IgnoreParentExit = IgnoreParentExit,
        !.ExitAfter = ExitAfter,
        !.PropagateOutput = PropagateOutput,
        !.OutputDir = OutputDir,
        !.ExitErrorIsOk = ExitErrorIsOk,
        !.Stdin = Stdin]

\* clone(); the new handle is appended to the handles created so far
clone(t) ==
    /\ Idle(t)
    /\ Len(clones) < MaxClones
    /\ IF cloneRejected THEN
            /\ Return(t, Ret("clone", "errAlreadyCalledCleanup"))
            /\ UNCHANGED clones
       ELSE /\ clones' = Append(clones, cloneResult)
            /\ Return(t, Ret("clone", "nil"))
    /\ UNCHANGED <<cfgVars, auxVars, decoded, stdinWriteCloser, calledStart,
                   calledWait, started, exited, stdoutWriters, stderrWriters,
                   closers, recvReady, recvVars, waitChan, calledCleanup,
                   procState, exitStatus, copyErr, reaperPc, waitErr, want,
                   res, closeCalls, ghostVars>>

----------------------------------------------------------------------------
(* start *)

StartOutcomes == {"ok", "stdoutFileFail", "stderrFileFail", "launchFail"}

makeStdoutStderrDecoderFirst(out, err, cl, outcome) ==
    LET out1 == <<RecvWriterId>> \o out
        out2 == IF PropagateOutput THEN Append(out1, OsStdout) ELSE out1
        err2 == IF PropagateOutput THEN Append(err, OsStderr) ELSE err
    IN  IF ~OutputDir THEN
            [out |-> out2, err |-> err2, cl |-> cl, error |-> "nil"]
        ELSE IF outcome = "stdoutFileFail" THEN
            [out |-> out2, err |-> err2, cl |-> cl, error |-> "errOpenFile"]
        ELSE IF outcome = "stderrFileFail" THEN
            [out |-> Append(out2, StdoutFile), err |-> err2,
             cl |-> Append(cl, StdoutFile), error |-> "errOpenFile"]
        ELSE
            [out |-> Append(out2, StdoutFile), err |-> Append(err2, StderrFile),
             cl |-> Append(Append(cl, StdoutFile), StderrFile), error |-> "nil"]

\* makeStdoutStderr: the sink lists and the registry after assembly, and the
\* error of a failed os.OpenFile
makeStdoutStderr(out, err, cl, outcome) ==
    LET out1 == Append(out, RecvWriterId)
        out2 == IF PropagateOutput THEN Append(out1, OsStdout) ELSE out1
        err2 == IF PropagateOutput THEN Append(err, OsStderr) ELSE err
    IN  IF ~OutputDir THEN
            [out |-> out2, err |-> err2, cl |-> cl, error |-> "nil"]
        ELSE IF outcome = "stdoutFileFail" THEN
            [out |-> out2, err |-> err2, cl |-> cl, error |-> "errOpenFile"]
        ELSE IF outcome = "stderrFileFail" THEN
            [out |-> Append(out2, StdoutFile), err |-> err2,
             cl |-> Append(cl, StdoutFile), error |-> "errOpenFile"]
        ELSE
            [out |-> Append(out2, StdoutFile), err |-> Append(err2, StderrFile),
             cl |-> Append(Append(cl, StdoutFile), StderrFile), error |-> "nil"]

\* mapToSlice(m): the entries of m as the list of key=value that exec.Cmd.Env
\* takes, here the set of its <<key, value>>
mapToSlice(m) == {<<k, m[k]>> : k \in {x \in DOMAIN m : m[x] # NoVal}}

\* time.Duration.String() of a number of seconds
DurationString(d) == ToString(d) \o "s"

startEnvNoDelete ==
    LET v0 == copyMap(Vars)
        v1 == IF IgnoreParentExit THEN v0
              ELSE [v0 EXCEPT ![envWatchParent] = "1"]
        v2 == IF ExitAfter = 0 THEN v1
              ELSE [v1 EXCEPT ![envExitAfter] = DurationString(ExitAfter)]
    IN  mapToSlice(v2)

\* c.c.Env as start() computes it from a copy of c.Vars
startEnv ==
    LET v0 == copyMap(Vars)
        v1 == IF IgnoreParentExit THEN [v0 EXCEPT ![envWatchParent] = NoVal]
              ELSE [v0 EXCEPT ![envWatchParent] = "1"]
        v2 == IF ExitAfter = 0 THEN [v1 EXCEPT ![envExitAfter] = NoVal]
              ELSE [v1 EXCEPT ![envExitAfter] = DurationString(ExitAfter)]
    IN  mapToSlice(v2)

startBodyStdinUnchecked(outcome) ==
    LET unchanged(e) == [out |-> stdoutWriters, err |-> stderrWriters,
                         cl |-> closers, error |-> e]
        m == makeStdoutStderr(stdoutWriters, stderrWriters, closers, outcome)
    IN  IF calledCleanup THEN unchanged("errAlreadyCalledCleanup")
        ELSE IF m.error # "nil" THEN m
        ELSE IF outcome = "launchFail" THEN [m EXCEPT !.error = "errStart"]
        ELSE m

\* the body of start() after the check of c.sh.calledCleanup
startAfterCheck(outcome) ==
    LET unchanged(e) == [out |-> stdoutWriters, err |-> stderrWriters,
                         cl |-> closers, error |-> e]
        m == makeStdoutStderr(stdoutWriters, stderrWriters, closers, outcome)
    IN  IF Stdin /\ stdinWriteCloser THEN unchanged("errStdinConflict")
        ELSE IF m.error # "nil" THEN m
        ELSE IF outcome = "launchFail" THEN [m EXCEPT !.error = "errStart"]
        ELSE m

\* the body of start() after calledStart has been set
startBody(outcome) ==
    IF calledCleanup
    THEN [out |-> stdoutWriters, err |-> stderrWriters, cl |-> closers,
          error |-> "errAlreadyCalledCleanup"]
    ELSE startAfterCheck(outcome)

startNeverRejected == FALSE

\* the stdin pipe after start(): c.c.Start() closes the pipes of
\* exec.Cmd.StdinPipe when it fails; start() itself closes only c.closers
execStartStdin(error) == IF error = "errStart" THEN FALSE ELSE stdinOpen

startRejectedOnlyStarted == started

\* the guard at the top of start()
startRejected == calledStart

\* the body of start(); op is "start" or "run" (run = start, then wait on
\* success)
startFrom(t, op, outcome) ==
    /\ \A w \in AllClosers : closeCalls[w] < MaxCloseCalls
    /\ IF startRejected THEN
            /\ closeCalls' = IF ~started THEN closeClosers(closers, closeCalls)
                             ELSE closeCalls
            /\ Return(t, Ret(op, "errAlreadyCalledStart"))
            /\ UNCHANGED <<calledStart, calledWait, started, stdoutWriters,
                           stderrWriters, closers, procState, reaperPc,
                           procCount, reaperCount, stdinOpen, procEnv>>
       ELSE LET r == startBody(outcome) IN
            /\ calledStart' = TRUE
            /\ procEnv' = IF r.error = "errAlreadyCalledCleanup" THEN procEnv
                          ELSE startEnv
            /\ stdoutWriters' = r.out
            /\ stderrWriters' = r.err
            /\ closers' = r.cl
            /\ stdinOpen' = execStartStdin(r.error)
            /\ IF r.error = "nil" THEN
                    /\ started' = TRUE
                    /\ procState' = "running"
                    /\ procCount' = procCount + 1
                    /\ reaperPc' = "wait"
                    /\ reaperCount' = reaperCount + 1
                    /\ UNCHANGED closeCalls
                    /\ IF op = "run" THEN
                            /\ IF calledWait THEN
                                    /\ Return(t, Ret(op, "errAlreadyCalledWait"))
                                    /\ UNCHANGED calledWait
                               ELSE
                                    /\ calledWait' = TRUE
                                    /\ pc' = [pc EXCEPT ![t] = "run"]
                                    /\ UNCHANGED ret
                       ELSE /\ Return(t, Ret(op, "nil"))
                            /\ UNCHANGED calledWait
               ELSE /\ closeCalls' = closeClosers(r.cl, closeCalls)
                    /\ Return(t, Ret(op, r.error))
                    /\ UNCHANGED <<started, procState, procCount, reaperPc,
                                   reaperCount, calledWait>>
    /\ UNCHANGED <<cfgVars, byteVars, copyVars, stdinPipes, decoded, clones,
                   stdinWriteCloser, exited, recvReady, recvVars, waitChan,
                   calledCleanup, exitStatus, copyErr, waitErr, want, res,
                   chanWrites, chanReads>>

\* start() or run() called by a caller that is in no other operation
start(t, op, outcome) == Idle(t) /\ startFrom(t, op, outcome)

\* stdout(), stdoutStderr(), combinedOutput(): the buffers each appends to
\* the sink lists before it calls run()
CaptureOps == {"stdout", "stdoutStderr", "combinedOutput"}

captureBuffers(op) ==
    [out |-> <<OutBuffer>>,
     err |-> IF op = "stdout" THEN <<>>
             ELSE IF op = "stdoutStderr" THEN <<ErrBuffer>>
             ELSE <<OutBuffer>>]

\* stdout(), stdoutStderr(), combinedOutput() up to the call of run()
captureEnter(t, op) ==
    /\ Idle(t)
    /\ IF calledStart THEN
            /\ Return(t, Ret(op, "errAlreadyCalledStart"))
            /\ UNCHANGED <<stdoutWriters, stderrWriters>>
       ELSE /\ stdoutWriters' = stdoutWriters \o captureBuffers(op).out
            /\ stderrWriters' = stderrWriters \o captureBuffers(op).err
            /\ pc' = [pc EXCEPT ![t] = "capture"]
            /\ UNCHANGED ret
    /\ UNCHANGED <<cfgVars, auxVars, decoded, clones, stdinWriteCloser,
                   calledStart, calledWait, started, exited, closers,
                   recvReady, recvVars, waitChan, calledCleanup, procState,
                   exitStatus, copyErr, reaperPc, waitErr, want, res,
                   closeCalls, ghostVars>>

\* err := c.run() in stdout(), stdoutStderr(), combinedOutput(): the result
\* of run() is the result of the operation
captureRun(t, outcome) ==
    /\ pc[t] = "capture"
    /\ startFrom(t, "run", outcome)

----------------------------------------------------------------------------
(* awaitReady *)

stateWindowErrNoWaitGuard ==
    IF ~started THEN "errDidNotCallStart" ELSE "nil"

stateWindowErrNoStartGuard ==
    IF calledWait THEN "errAlreadyCalledWait" ELSE "nil"

\* the guards at the top of awaitReady, awaitVars, wait and signal
stateWindowErr ==
    IF ~started THEN "errDidNotCallStart"
    ELSE IF calledWait THEN "errAlreadyCalledWait"
    ELSE "nil"

awaitReadyEnter(t) ==
    /\ Idle(t)
    /\ IF stateWindowErr # "nil"
       THEN Return(t, Ret("awaitReady", stateWindowErr))
       ELSE /\ pc' = [pc EXCEPT ![t] = "awaitReadyLock"]
            /\ UNCHANGED ret
    /\ UNCHANGED <<cfgVars, auxVars, decoded, clones, stdinWriteCloser,
                   calledStart, calledWait, started, exited, stdoutWriters,
                   stderrWriters, closers, recvReady, recvVars, waitChan,
                   calledCleanup, procState, exitStatus, copyErr, reaperPc,
                   waitErr, want, res, closeCalls, ghostVars>>

awaitReadyResultAlwaysNil == "nil"

awaitReadyResultExitWins == IF exited THEN "errProcessExited" ELSE "nil"

\* the result of awaitReady once its loop has ended
awaitReadyResult == IF ~recvReady THEN "errProcessExited" ELSE "nil"

\* awaitReady with c.cond.L held: the loop test, then cond.Wait or return
awaitReadyEval(t) ==
    /\ pc[t] \in {"awaitReadyLock", "awaitReadyWoken"}
    /\ IF ~exited /\ ~recvReady
       THEN /\ pc' = [pc EXCEPT ![t] = "awaitReadyBlocked"]
            /\ UNCHANGED ret
       ELSE Return(t, Ret("awaitReady", awaitReadyResult))
    /\ UNCHANGED <<cfgVars, auxVars, decoded, clones, stdinWriteCloser,
                   calledStart, calledWait, started, exited, stdoutWriters,
                   stderrWriters, closers, recvReady, recvVars, waitChan,
                   calledCleanup, procState, exitStatus, copyErr, reaperPc,
                   waitErr, want, res, closeCalls, ghostVars>>

----------------------------------------------------------------------------
(* awaitVars *)

awaitVarsEnter(t, keys) ==
    /\ Idle(t)
    /\ IF stateWindowErr # "nil"
       THEN /\ Return(t, Ret("awaitVars", stateWindowErr))
            /\ UNCHANGED <<want, res>>
       ELSE /\ want' = [want EXCEPT ![t] = Range(keys)]
            /\ res' = [res EXCEPT ![t] = EmptyMap]
            /\ pc' = [pc EXCEPT ![t] = "awaitVarsLock"]
            /\ UNCHANGED ret
    /\ UNCHANGED <<cfgVars, auxVars, decoded, clones, stdinWriteCloser,
                   calledStart, calledWait, started, exited, stdoutWriters,
                   stderrWriters, closers, recvReady, recvVars, waitChan,
                   calledCleanup, procState, exitStatus, copyErr, reaperPc,
                   waitErr, closeCalls, ghostVars>>

updateResKeepFirst(r, w) ==
    [k \in Keys |-> IF r[k] # NoVal THEN r[k]
                    ELSE IF recvVars[k] # NoVal /\ k \in w THEN recvVars[k]
                    ELSE r[k]]

\* updateRes: copy the wanted keys present in recvVars into res
updateRes(r, w) ==
    [k \in Keys |-> IF recvVars[k] # NoVal /\ k \in w THEN recvVars[k] ELSE r[k]]

\* the result of awaitVars once its loop has ended
awaitVarsFailed(r, w) == Cardinality(MapKeys(r)) < Cardinality(w)

\* awaitVars with c.cond.L held: updateRes, the loop test, then cond.Wait or
\* return
awaitVarsEval(t) ==
    /\ pc[t] \in {"awaitVarsLock", "awaitVarsWoken"}
    /\ LET r == updateRes(res[t], want[t]) IN
       IF ~exited /\ Cardinality(MapKeys(r)) < Cardinality(want[t])
       THEN /\ res' = [res EXCEPT ![t] = r]
            /\ pc' = [pc EXCEPT ![t] = "awaitVarsBlocked"]
            /\ UNCHANGED <<ret, want>>
       ELSE /\ pc' = [pc EXCEPT ![t] = "idle"]
            /\ ret' = [ret EXCEPT ![t] =
                         IF awaitVarsFailed(r, want[t])
                         THEN Ret("awaitVars", "errProcessExited")
                         ELSE [Ret("awaitVars", "nil") EXCEPT !.val = r]]
            /\ res' = [res EXCEPT ![t] = EmptyMap]
            /\ want' = [want EXCEPT ![t] = {}]
    /\ UNCHANGED <<cfgVars, auxVars, decoded, clones, stdinWriteCloser,
                   calledStart, calledWait, started, exited, stdoutWriters,
                   stderrWriters, closers, recvReady, recvVars, waitChan,
                   calledCleanup, procState, exitStatus, copyErr, reaperPc,
                   waitErr, closeCalls, ghostVars>>

----------------------------------------------------------------------------
(* wait, signal, terminate *)

waitUnguarded(t) ==
    /\ Idle(t)
    /\ IF calledWait
       THEN /\ Return(t, [Ret("wait", "errAlreadyCalledWait")
                             EXCEPT !.again = (ret[t].op = "wait")])
            /\ UNCHANGED calledWait
       ELSE /\ calledWait' = TRUE
            /\ pc' = [pc EXCEPT ![t] = "wait"]
            /\ UNCHANGED ret
    /\ UNCHANGED <<cfgVars, auxVars, decoded, clones, stdinWriteCloser,
                   calledStart, started, exited, stdoutWriters, stderrWriters,
                   closers, recvReady, recvVars, waitChan, calledCleanup,
                   procState, exitStatus, copyErr, reaperPc, waitErr, want,
                   res, closeCalls, ghostVars>>

\* wait() up to the receive on waitChan
wait(t) ==
    /\ Idle(t)
    /\ IF stateWindowErr # "nil"
       THEN /\ Return(t, [Ret("wait", stateWindowErr)
                             EXCEPT !.again = (ret[t].op = "wait")])
            /\ UNCHANGED calledWait
       ELSE /\ calledWait' = TRUE
            /\ pc' = [pc EXCEPT ![t] = "wait"]
            /\ UNCHANGED ret
    /\ UNCHANGED <<cfgVars, auxVars, decoded, clones, stdinWriteCloser,
                   calledStart, started, exited, stdoutWriters, stderrWriters,
                   closers, recvReady, recvVars, waitChan, calledCleanup,
                   procState, exitStatus, copyErr, reaperPc, waitErr, want,
                   res, closeCalls, ghostVars>>

\* terminate's treatment of the result of wait
terminateResultUnforgiven(err) == err

terminateResult(err) == IF err = "ExitError" THEN "nil" ELSE err

\* <-c.waitChan in wait(), reached from wait, run or terminate
waitRecv(t) ==
    /\ pc[t] \in {"wait", "run", "terminate"}
    /\ waitChan # <<>>
    /\ waitChan' = Tail(waitChan)
    /\ chanReads' = chanReads + 1
    /\ Return(t, [Ret(pc[t], IF pc[t] = "terminate"
                             THEN terminateResult(Head(waitChan))
                             ELSE Head(waitChan))
                     EXCEPT !.again = (pc[t] = "wait" /\ ret[t].op = "wait")])
    /\ UNCHANGED <<cfgVars, auxVars, decoded, clones, stdinWriteCloser,
                   calledStart, calledWait, started, exited, stdoutWriters,
                   stderrWriters, closers, recvReady, recvVars, calledCleanup,
                   procState, exitStatus, copyErr, reaperPc, waitErr, want,
                   res, closeCalls, procCount, reaperCount, chanWrites>>

isRunningIgnoresExit == started

\* isRunning()
isRunning == started /\ ~exited

\* a variant in which terminate() returns at once when the process is not
\* running
signalEnterSkipsWait(t, op) ==
    /\ Idle(t)
    /\ IF stateWindowErr # "nil"
       THEN Return(t, Ret(op, stateWindowErr))
       ELSE IF isRunning
       THEN /\ pc' = [pc EXCEPT ![t] = IF op = "signal" THEN "signalSend"
                                       ELSE "terminateSend"]
            /\ UNCHANGED ret
       ELSE Return(t, Ret(op, "nil"))
    /\ UNCHANGED <<cfgVars, auxVars, decoded, clones, stdinWriteCloser,
                   calledStart, calledWait, started, exited, stdoutWriters,
                   stderrWriters, closers, recvReady, recvVars, waitChan,
                   calledCleanup, procState, exitStatus, copyErr, reaperPc,
                   waitErr, want, res, closeCalls, ghostVars>>

\* signal() up to the call of Process.Signal; op is "signal" or "terminate"
signalEnter(t, op) ==
    /\ Idle(t)
    /\ IF stateWindowErr # "nil"
       THEN /\ Return(t, Ret(op, stateWindowErr))
            /\ UNCHANGED calledWait
       ELSE IF isRunning
       THEN /\ pc' = [pc EXCEPT ![t] = IF op = "signal" THEN "signalSend"
                                       ELSE "terminateSend"]
            /\ UNCHANGED <<ret, calledWait>>
       ELSE IF op = "signal"
       THEN /\ Return(t, Ret(op, "nil"))
            /\ UNCHANGED calledWait
       ELSE /\ calledWait' = TRUE
            /\ pc' = [pc EXCEPT ![t] = "terminate"]
            /\ UNCHANGED ret
    /\ UNCHANGED <<cfgVars, auxVars, decoded, clones, stdinWriteCloser,
                   calledStart, started, exited, stdoutWriters, stderrWriters,
                   closers, recvReady, recvVars, waitChan, calledCleanup,
                   procState, exitStatus, copyErr, reaperPc, waitErr, want,
                   res, closeCalls, ghostVars>>

\* outcomes of Process.Signal: "finished" once exec.Cmd.Wait has returned
SignalOutcomes == IF reaperPc = "wait" THEN {"delivered", "failed"}
                  ELSE {"finished", "failed"}

\* c.c.Process.Signal(sig) and the rest of signal(); terminate goes on to wait
signalSend(t, outcome) ==
    /\ pc[t] \in {"signalSend", "terminateSend"}
    /\ outcome \in SignalOutcomes
    /\ IF outcome = "failed"
       THEN /\ Return(t, Ret(IF pc[t] = "signalSend" THEN "signal"
                             ELSE "terminate", "errSignal"))
            /\ UNCHANGED calledWait
       ELSE IF pc[t] = "signalSend"
       THEN /\ Return(t, Ret("signal", "nil"))
            /\ UNCHANGED calledWait
       ELSE \* wait(): started holds; calledWait was false on entry
            IF calledWait
            THEN /\ Return(t, Ret("terminate", "errAlreadyCalledWait"))
                 /\ UNCHANGED calledWait
            ELSE /\ calledWait' = TRUE
                 /\ pc' = [pc EXCEPT ![t] = "terminate"]
                 /\ UNCHANGED ret
    /\ UNCHANGED <<cfgVars, auxVars, decoded, clones, stdinWriteCloser,
                   calledStart, started, exited, stdoutWriters, stderrWriters,
                   closers, recvReady, recvVars, waitChan, calledCleanup,
                   procState, exitStatus, copyErr, reaperPc, waitErr, want,
                   res, closeCalls, ghostVars>>

----------------------------------------------------------------------------
(* The child, its stdout copy, and the exit-waiter goroutine *)

\* recvWriter.Write of one complete line.  A line without the message prefix
\* is skipped; a prefixed line that does not decode fails the write, which
\* ends the copy.
recvWriterDecode(line) ==
    /\ IF line.kind = "ready" THEN
            /\ recvReady' = TRUE
            /\ pc' \in CondSignal(pc)
            /\ UNCHANGED <<recvVars, copyErr, decoded>>
       ELSE IF line.kind = "vars" THEN
            /\ Len(decoded) < MaxMsgs
            /\ recvVars' = mergeMaps(recvVars, line.vars)
            /\ decoded' = Append(decoded, line.vars)
            /\ pc' \in CondSignal(pc)
            /\ UNCHANGED <<recvReady, copyErr>>
       ELSE IF line.kind \in {"bad", "unknown"} THEN
            /\ copyErr' = TRUE
            /\ UNCHANGED <<recvReady, recvVars, pc, decoded>>
       ELSE UNCHANGED <<recvReady, recvVars, copyErr, pc, decoded>>

\* the copying of the child's stdout hands one line to the decoder; nothing
\* is copied after a failed write
recvWriterWrite(line) ==
    /\ reaperPc = "wait"
    /\ ~copyErr
    /\ recvWriterDecode(line)
    /\ UNCHANGED <<cfgVars, auxVars, clones, stdinWriteCloser, calledStart,
                   calledWait, started, exited, stdoutWriters, stderrWriters,
                   closers, waitChan, calledCleanup, procState, exitStatus,
                   reaperPc, waitErr, want, res, ret, closeCalls, ghostVars>>

processExitSetsExited(status) ==
    /\ procState = "running"
    /\ procState' = "terminated"
    /\ exitStatus' = status
    /\ exited' = TRUE
    /\ UNCHANGED <<cfgVars, auxVars, decoded, clones, stdinWriteCloser,
                   calledStart, calledWait, started, stdoutWriters,
                   stderrWriters, closers, recvReady, recvVars, waitChan,
                   calledCleanup, copyErr, reaperPc, waitErr, pc, want, res,
                   ret, closeCalls, ghostVars>>

\* the OS process terminates
processExit(status) ==
    /\ procState = "running"
    /\ procState' = "terminated"
    /\ exitStatus' = status
    /\ UNCHANGED <<cfgVars, auxVars, decoded, clones, stdinWriteCloser,
                   calledStart, calledWait, started, exited, stdoutWriters,
                   stderrWriters, closers, recvReady, recvVars, waitChan,
                   calledCleanup, copyErr, reaperPc, waitErr, pc, want, res,
                   ret, closeCalls, ghostVars>>

execWaitResultCopyFirst == IF copyErr THEN "decodeError"
                           ELSE IF exitStatus # 0 THEN "ExitError"
                           ELSE "nil"

\* the value of exec.Cmd.Wait: the exit error of a nonzero status, else the
\* error of a failed copy
execWaitResult == IF exitStatus # 0 THEN "ExitError"
                  ELSE IF copyErr THEN "decodeError"
                  ELSE "nil"

\* waitErr := c.c.Wait() returns: the process has terminated and the copying
\* has ended
exitWaiterWait ==
    /\ reaperPc = "wait"
    /\ procState = "terminated"
    /\ waitErr' = execWaitResult
    /\ reaperPc' = "lock"
    /\ stdinOpen' = FALSE
    /\ UNCHANGED <<cfgVars, procEnv, byteVars, copyVars, stdinPipes, decoded,
                   clones, stdinWriteCloser, calledStart, calledWait, started,
                   exited, stdoutWriters, stderrWriters, closers, recvReady,
                   recvVars, waitChan, calledCleanup, procState, exitStatus,
                   copyErr, pc, want, res, ret, closeCalls, ghostVars>>

\* a variant that sets exited without signalling the condition
exitWaiterSetExitedSilently ==
    /\ reaperPc = "lock"
    /\ exited' = TRUE
    /\ reaperPc' = "close"
    /\ UNCHANGED <<cfgVars, auxVars, decoded, clones, stdinWriteCloser,
                   calledStart, calledWait, started, stdoutWriters,
                   stderrWriters, closers, recvReady, recvVars, waitChan,
                   calledCleanup, procState, exitStatus, copyErr, waitErr, pc,
                   want, res, ret, closeCalls, ghostVars>>

\* c.cond.L.Lock(); c.exited = true; c.cond.Signal(); c.cond.L.Unlock()
exitWaiterSetExited ==
    /\ reaperPc = "lock"
    /\ exited' = TRUE
    /\ pc' \in CondSignal(pc)
    /\ reaperPc' = "close"
    /\ UNCHANGED <<cfgVars, auxVars, decoded, clones, stdinWriteCloser,
                   calledStart, calledWait, started, stdoutWriters,
                   stderrWriters, closers, recvReady, recvVars, waitChan,
                   calledCleanup, procState, exitStatus, copyErr, waitErr,
                   want, res, ret, closeCalls, ghostVars>>

exitWaiterCloseSkipped ==
    /\ reaperPc = "close"
    /\ reaperPc' = "send"
    /\ UNCHANGED <<cfgVars, auxVars, decoded, clones, stdinWriteCloser,
                   calledStart, calledWait, started, exited, stdoutWriters,
                   stderrWriters, closers, recvReady, recvVars, waitChan,
                   calledCleanup, procState, exitStatus, copyErr, waitErr, pc,
                   want, res, ret, closeCalls, ghostVars>>

\* c.closeClosers()
exitWaiterClose ==
    /\ reaperPc = "close"
    /\ closeCalls' = closeClosers(closers, closeCalls)
    /\ reaperPc' = "send"
    /\ UNCHANGED <<cfgVars, auxVars, decoded, clones, stdinWriteCloser,
                   calledStart, calledWait, started, exited, stdoutWriters,
                   stderrWriters, closers, recvReady, recvVars, waitChan,
                   calledCleanup, procState, exitStatus, copyErr, waitErr, pc,
                   want, res, ret, ghostVars>>

canSendUnbuffered == \E t \in Threads : pc[t] \in {"wait", "run", "terminate"}

\* a send on waitChan proceeds while its buffer has room
canSend == Len(waitChan) < WaitChanCap

exitWaiterSendAgain ==
    /\ reaperPc = "send"
    /\ canSend
    /\ waitChan' = Append(waitChan, waitErr)
    /\ chanWrites' = chanWrites + 1
    /\ UNCHANGED <<cfgVars, auxVars, decoded, clones, stdinWriteCloser,
                   calledStart, calledWait, started, exited, stdoutWriters,
                   stderrWriters, closers, recvReady, recvVars, calledCleanup,
                   procState, exitStatus, copyErr, waitErr, pc, want, res,
                   ret, closeCalls, procCount, reaperCount, chanReads,
                   reaperPc>>

\* c.waitChan <- waitErr
exitWaiterSend ==
    /\ reaperPc = "send"
    /\ canSend
    /\ waitChan' = Append(waitChan, waitErr)
    /\ chanWrites' = chanWrites + 1
    /\ reaperPc' = "done"
    /\ UNCHANGED <<cfgVars, auxVars, decoded, clones, stdinWriteCloser,
                   calledStart, calledWait, started, exited, stdoutWriters,
                   stderrWriters, closers, recvReady, recvVars, calledCleanup,
                   procState, exitStatus, copyErr, waitErr, pc, want, res,
                   ret, closeCalls, procCount, reaperCount, chanReads>>

\* The owning Shell begins its cleanup.
shellCleanup ==
    /\ ~calledCleanup
    /\ calledCleanup' = TRUE
    /\ UNCHANGED <<cfgVars, auxVars, decoded, clones, stdinWriteCloser,
                   calledStart, calledWait, started, exited, stdoutWriters,
                   stderrWriters, closers, recvReady, recvVars, waitChan,
                   procState, exitStatus, copyErr, reaperPc, waitErr, pc,
                   want, res, ret, closeCalls, ghostVars>>

----------------------------------------------------------------------------
(* the copying of the child's output to the sinks, write by write *)

Writers(s) == IF s = "stdout" THEN stdoutWriters ELSE stderrWriters

\* the lines the child writes in this part: one per write
WriteLines(s) ==
    IF s = "stdout" THEN {l \in Lines : l.kind \in {"ready", "bad", "plain"}}
    ELSE {l \in Lines : l.kind = "plain"}

\* makeStdoutStderr: hasOut && hasErr, the case that wraps both MultiWriters
\* in lockedWriters over one mutex
locked == Len(stdoutWriters) > 0 /\ Len(stderrWriters) > 0

sharedMuAlwaysFree == TRUE

\* w.mu.Lock() returns when no other lockedWriter holds the mutex
sharedMuFree == sharedMu = "free"

\* the child writes a line to its stdout or stderr
childWrite(s, line) ==
    /\ procState = "running"
    /\ Len(Writers(s)) > 0
    /\ wrote[s] < MaxWrites
    /\ pipe' = [pipe EXCEPT ![s] = Append(@, line)]
    /\ wrote' = [wrote EXCEPT ![s] = @ + 1]
    /\ UNCHANGED <<cfgVars, procEnv, byteVars, stdinVars, copier, sharedMu,
                   received, decoded, clones, stdinWriteCloser, calledStart,
                   calledWait, started, exited, stdoutWriters, stderrWriters,
                   closers, recvReady, recvVars, waitChan, calledCleanup,
                   procState, exitStatus, copyErr, reaperPc, waitErr, pc,
                   want, res, ret, closeCalls, ghostVars>>

\* io.Copy reads the next write of the child from the pipe
copyRead(s) ==
    /\ started
    /\ copier[s].pc = "read"
    /\ pipe[s] # <<>>
    /\ copier' = [copier EXCEPT ![s] =
                    [pc |-> IF locked THEN "lock" ELSE "write",
                     line |-> Head(pipe[s]), idx |-> 1, half |-> 0,
                     n |-> @.n + 1]]
    /\ pipe' = [pipe EXCEPT ![s] = Tail(@)]
    /\ UNCHANGED <<cfgVars, procEnv, byteVars, stdinVars, sharedMu, received,
                   wrote, decoded, clones, stdinWriteCloser, calledStart,
                   calledWait, started, exited, stdoutWriters, stderrWriters,
                   closers, recvReady, recvVars, waitChan, calledCleanup,
                   procState, exitStatus, copyErr, reaperPc, waitErr, pc,
                   want, res, ret, closeCalls, ghostVars>>

\* io.Copy reads the end of the pipe of the terminated child
copyEOF(s) ==
    /\ started
    /\ copier[s].pc = "read"
    /\ Len(Writers(s)) > 0
    /\ pipe[s] = <<>>
    /\ procState = "terminated"
    /\ copier' = [copier EXCEPT ![s].pc = "done"]
    /\ UNCHANGED <<cfgVars, procEnv, byteVars, stdinVars, pipe, sharedMu,
                   received, wrote, decoded, clones, stdinWriteCloser,
                   calledStart, calledWait, started, exited, stdoutWriters,
                   stderrWriters, closers, recvReady, recvVars, waitChan,
                   calledCleanup, procState, exitStatus, copyErr, reaperPc,
                   waitErr, pc, want, res, ret, closeCalls, ghostVars>>

\* lockedWriter.Write: w.mu.Lock()
lockedWriterLock(s) ==
    /\ copier[s].pc = "lock"
    /\ sharedMuFree
    /\ sharedMu' = s
    /\ copier' = [copier EXCEPT ![s].pc = "write"]
    /\ UNCHANGED <<cfgVars, procEnv, byteVars, stdinVars, pipe, received,
                   wrote, decoded, clones, stdinWriteCloser, calledStart,
                   calledWait, started, exited, stdoutWriters, stderrWriters,
                   closers, recvReady, recvVars, waitChan, calledCleanup,
                   procState, exitStatus, copyErr, reaperPc, waitErr, pc,
                   want, res, ret, closeCalls, ghostVars>>

\* io.MultiWriter's Write calls the Write of its next sink.  The decoder
\* takes the line in one step and its error ends the MultiWriter's Write,
\* the lockedWriter's Write (w.mu.Unlock()) and io.Copy.  Any other sink takes
\* the bytes in two halves.
multiWriterWrite(s) ==
    LET c == copier[s] IN
    /\ c.pc = "write"
    /\ c.idx <= Len(Writers(s))
    /\ IF Writers(s)[c.idx] = RecvWriterId THEN
            /\ recvWriterDecode(c.line)
            /\ IF c.line.kind \in {"bad", "unknown"} THEN
                    /\ copier' = [copier EXCEPT ![s] =
                                    [CopierIdle(c.n) EXCEPT !.pc = "failed"]]
                    /\ sharedMu' = IF locked THEN "free" ELSE sharedMu
               ELSE /\ copier' = [copier EXCEPT ![s].idx = @ + 1]
                    /\ UNCHANGED sharedMu
            /\ UNCHANGED received
       ELSE /\ received' = [received EXCEPT ![Writers(s)[c.idx]] =
                                Append(@, <<s, c.n, c.half + 1>>)]
            /\ copier' = [copier EXCEPT ![s] =
                            IF c.half = 0 THEN [c EXCEPT !.half = 1]
                            ELSE [c EXCEPT !.half = 0, !.idx = @ + 1]]
            /\ UNCHANGED <<recvReady, recvVars, copyErr, pc, decoded,
                           sharedMu>>
    /\ UNCHANGED <<cfgVars, procEnv, byteVars, stdinVars, pipe, wrote, clones,
                   stdinWriteCloser, calledStart, calledWait, started, exited,
                   stdoutWriters, stderrWriters, closers, waitChan,
                   calledCleanup, procState, exitStatus, reaperPc, waitErr,
                   want, res, ret, closeCalls, ghostVars>>

\* the MultiWriter's Write has called every sink: w.mu.Unlock(), and io.Copy
\* goes on to read
multiWriterReturn(s) ==
    /\ copier[s].pc = "write"
    /\ copier[s].idx > Len(Writers(s))
    /\ copier' = [copier EXCEPT ![s] = CopierIdle(@.n)]
    /\ sharedMu' = IF locked THEN "free" ELSE sharedMu
    /\ UNCHANGED <<cfgVars, procEnv, byteVars, stdinVars, pipe, received,
                   wrote, decoded, clones, stdinWriteCloser, calledStart,
                   calledWait, started, exited, stdoutWriters, stderrWriters,
                   closers, recvReady, recvVars, waitChan, calledCleanup,
                   procState, exitStatus, copyErr, reaperPc, waitErr, pc,
                   want, res, ret, closeCalls, ghostVars>>

CopyingEndedAtOnce == TRUE

\* exec.Cmd.Wait returns when the copying goroutines have ended
CopyingEnded ==
    \A s \in Streams :
        Len(Writers(s)) = 0 \/ copier[s].pc \in {"done", "failed"}

----------------------------------------------------------------------------
(* start, creation and the Shell's cleanup, step by step under cleanupMu *)

LockHolding == {"startLocked", "startChecked", "cloneLocked", "cloneChecked",
                "cleanupLocked", "cleanupSet"}

cleanupMuNeverHeld == FALSE

\* sh.cleanupMu is held by the goroutine that is between its Lock() and its
\* deferred Unlock()
cleanupMuHeld == \E t \in Threads : pc[t] \in LockHolding

\* start() up to c.calledStart = true
startEnter(t) ==
    /\ Idle(t)
    /\ ~startRejected
    /\ calledStart' = TRUE
    /\ pc' = [pc EXCEPT ![t] = "startLock"]
    /\ UNCHANGED <<cfgVars, auxVars, decoded, clones, stdinWriteCloser,
                   calledWait, started, exited, stdoutWriters, stderrWriters,
                   closers, recvReady, recvVars, waitChan, calledCleanup,
                   procState, exitStatus, copyErr, reaperPc, waitErr, want,
                   res, ret, closeCalls, ghostVars>>

\* c.sh.cleanupMu.Lock()
startLock(t) ==
    /\ pc[t] = "startLock"
    /\ ~cleanupMuHeld
    /\ pc' = [pc EXCEPT ![t] = "startLocked"]
    /\ UNCHANGED <<cfgVars, auxVars, decoded, clones, stdinWriteCloser,
                   calledStart, calledWait, started, exited, stdoutWriters,
                   stderrWriters, closers, recvReady, recvVars, waitChan,
                   calledCleanup, procState, exitStatus, copyErr, reaperPc,
                   waitErr, want, res, ret, closeCalls, ghostVars>>

\* if c.sh.calledCleanup { return errAlreadyCalledCleanup }, with the
\* deferred Unlock and closeClosers
startCheck(t) ==
    /\ pc[t] = "startLocked"
    /\ IF calledCleanup THEN
            /\ closeCalls' = closeClosers(closers, closeCalls)
            /\ Return(t, Ret("start", "errAlreadyCalledCleanup"))
       ELSE /\ pc' = [pc EXCEPT ![t] = "startChecked"]
            /\ UNCHANGED <<ret, closeCalls>>
    /\ UNCHANGED <<cfgVars, auxVars, decoded, clones, stdinWriteCloser,
                   calledStart, calledWait, started, exited, stdoutWriters,
                   stderrWriters, closers, recvReady, recvVars, waitChan,
                   calledCleanup, procState, exitStatus, copyErr, reaperPc,
                   waitErr, want, res, ghostVars>>

\* the rest of start(): the configuration, makeStdoutStderr, c.c.Start(),
\* c.started = true, startExitWaiter(), then the deferred Unlock and
\* closeClosers
startLaunch(t, outcome) ==
    /\ pc[t] = "startChecked"
    /\ procEnv' = startEnv
    /\ LET r == startAfterCheck(outcome) IN
          /\ stdoutWriters' = r.out
          /\ stderrWriters' = r.err
          /\ closers' = r.cl
          /\ stdinOpen' = execStartStdin(r.error)
          /\ Return(t, Ret("start", r.error))
          /\ IF r.error = "nil" THEN
                  /\ started' = TRUE
                  /\ procState' = "running"
                  /\ procCount' = procCount + 1
                  /\ reaperPc' = "wait"
                  /\ reaperCount' = reaperCount + 1
                  /\ UNCHANGED closeCalls
             ELSE /\ closeCalls' = closeClosers(r.cl, closeCalls)
                  /\ UNCHANGED <<started, procState, procCount, reaperPc,
                                 reaperCount>>
    /\ UNCHANGED <<cfgVars, byteVars, copyVars, stdinPipes, decoded, clones,
                   stdinWriteCloser, calledStart, calledWait, exited,
                   recvReady, recvVars, waitChan, calledCleanup, exitStatus,
                   copyErr, waitErr, want, res, chanWrites, chanReads>>

\* newCmdInternal: sh.cleanupMu.Lock()
cloneLock(t) ==
    /\ Idle(t)
    /\ Len(clones) < MaxClones
    /\ ~cleanupMuHeld
    /\ pc' = [pc EXCEPT ![t] = "cloneLocked"]
    /\ UNCHANGED <<cfgVars, auxVars, decoded, clones, stdinWriteCloser,
                   calledStart, calledWait, started, exited, stdoutWriters,
                   stderrWriters, closers, recvReady, recvVars, waitChan,
                   calledCleanup, procState, exitStatus, copyErr, reaperPc,
                   waitErr, want, res, ret, closeCalls, ghostVars>>

\* newCmdInternal: if sh.calledCleanup { return nil, errAlreadyCalledCleanup }
cloneCheck(t) ==
    /\ pc[t] = "cloneLocked"
    /\ IF cloneRejected THEN Return(t, Ret("clone", "errAlreadyCalledCleanup"))
       ELSE /\ pc' = [pc EXCEPT ![t] = "cloneChecked"]
            /\ UNCHANGED ret
    /\ UNCHANGED <<cfgVars, auxVars, decoded, clones, stdinWriteCloser,
                   calledStart, calledWait, started, exited, stdoutWriters,
                   stderrWriters, closers, recvReady, recvVars, waitChan,
                   calledCleanup, procState, exitStatus, copyErr, reaperPc,
                   waitErr, want, res, closeCalls, ghostVars>>

\* newCmdInternal: sh.cmds = append(sh.cmds, c), the deferred Unlock, and the
\* rest of clone()
cloneRegister(t) ==
    /\ pc[t] = "cloneChecked"
    /\ clones' = Append(clones, cloneResult)
    /\ Return(t, Ret("clone", "nil"))
    /\ UNCHANGED <<cfgVars, auxVars, decoded, stdinWriteCloser, calledStart,
                   calledWait, started, exited, stdoutWriters, stderrWriters,
                   closers, recvReady, recvVars, waitChan, calledCleanup,
                   procState, exitStatus, copyErr, reaperPc, waitErr, want,
                   res, closeCalls, ghostVars>>

\* The Shell's cleanup takes cleanupMu ...
cleanupLock(t) ==
    /\ Idle(t)
    /\ ~calledCleanup
    /\ ~cleanupMuHeld
    /\ pc' = [pc EXCEPT ![t] = "cleanupLocked"]
    /\ UNCHANGED <<cfgVars, auxVars, decoded, clones, stdinWriteCloser,
                   calledStart, calledWait, started, exited, stdoutWriters,
                   stderrWriters, closers, recvReady, recvVars, waitChan,
                   calledCleanup, procState, exitStatus, copyErr, reaperPc,
                   waitErr, want, res, ret, closeCalls, ghostVars>>

\* ... sets calledCleanup ...
cleanupSetFlag(t) ==
    /\ pc[t] = "cleanupLocked"
    /\ calledCleanup' = TRUE
    /\ pc' = [pc EXCEPT ![t] = "cleanupSet"]
    /\ UNCHANGED <<cfgVars, auxVars, decoded, clones, stdinWriteCloser,
                   calledStart, calledWait, started, exited, stdoutWriters,
                   stderrWriters, closers, recvReady, recvVars, waitChan,
                   procState, exitStatus, copyErr, reaperPc, waitErr, want,
                   res, ret, closeCalls, ghostVars>>

\* ... and releases cleanupMu when it has dealt with the registered handles.
cleanupUnlock(t) ==
    /\ pc[t] = "cleanupSet"
    /\ pc' = [pc EXCEPT ![t] = "idle"]
    /\ UNCHANGED <<cfgVars, auxVars, decoded, clones, stdinWriteCloser,
                   calledStart, calledWait, started, exited, stdoutWriters,
                   stderrWriters, closers, recvReady, recvVars, waitChan,
                   calledCleanup, procState, exitStatus, copyErr, reaperPc,
                   waitErr, want, res, ret, closeCalls, ghostVars>>

----------------------------------------------------------------------------
(* recvWriter.Write, byte by byte *)

\* json.Unmarshal of the bytes after the prefix and the switch on m.Type:
\* a ready message, a vars message, a message of another type, or no JSON
Unmarshal(buf) ==
    IF buf = <<"r", "r">> THEN "ready"
    ELSE IF buf = <<"v", "v">> THEN "vars"
    ELSE IF buf = <<"r", "v">> THEN "unknown"
    ELSE "errUnmarshal"

\* m.Vars of the vars message
UnmarshalVars == [k \in Keys |-> IF k = "a" THEN "1" ELSE NoVal]

\* the state one Write works on: the recvWriter's fields, the handshake
\* state, the error returned, whether cond.Signal was called
WriterState ==
    [buf |-> recv.buf, readPrefix |-> recv.readPrefix,
     skipLine |-> recv.skipLine, err |-> recv.err, ready |-> recvReady,
     vars |-> recvVars, decoded |-> decoded, signalled |-> FALSE]

\* w.readPrefix, w.skipLine = false, false; w.buf.Reset()
recvWriterReset(st) ==
    [st EXCEPT !.buf = <<>>, !.readPrefix = FALSE, !.skipLine = FALSE]

\* a variant that takes every line for a message line
recvWriterByteNoSkip(st, b) ==
    IF st.err # "nil" THEN st
    ELSE IF b = LF THEN
        IF st.readPrefix /\ ~st.skipLine THEN
            LET d == Unmarshal(st.buf) IN
            IF d = "errUnmarshal" THEN [st EXCEPT !.err = "errUnmarshal"]
            ELSE IF d = "ready" THEN
                recvWriterReset([st EXCEPT !.ready = TRUE,
                                           !.signalled = TRUE])
            ELSE IF d = "vars" THEN
                recvWriterReset(
                    [st EXCEPT !.vars = mergeMaps(@, UnmarshalVars),
                               !.decoded = Append(@, UnmarshalVars),
                               !.signalled = TRUE])
            ELSE [st EXCEPT !.err = "errUnknownType"]
        ELSE recvWriterReset(st)
    ELSE IF ~st.skipLine THEN
        LET buf1 == Append(st.buf, b) IN
        IF ~st.readPrefix /\ Len(buf1) = Len(msgPrefix)
        THEN [st EXCEPT !.buf = <<>>, !.readPrefix = TRUE]
        ELSE [st EXCEPT !.buf = buf1]
    ELSE st

\* a variant that decodes the message as soon as its last byte is there
recvWriterByteEager(st, b) ==
    IF st.err # "nil" THEN st
    ELSE IF b = LF THEN
        IF st.readPrefix /\ ~st.skipLine /\ st.buf # <<>> THEN
            LET d == Unmarshal(st.buf) IN
            IF d = "errUnmarshal" THEN [st EXCEPT !.err = "errUnmarshal"]
            ELSE IF d = "ready" THEN
                recvWriterReset([st EXCEPT !.ready = TRUE,
                                           !.signalled = TRUE])
            ELSE IF d = "vars" THEN
                recvWriterReset(
                    [st EXCEPT !.vars = mergeMaps(@, UnmarshalVars),
                               !.decoded = Append(@, UnmarshalVars),
                               !.signalled = TRUE])
            ELSE [st EXCEPT !.err = "errUnknownType"]
        ELSE recvWriterReset(st)
    ELSE IF ~st.skipLine THEN
        LET buf1 == Append(st.buf, b) IN
        IF ~st.readPrefix /\ Len(buf1) = Len(msgPrefix)
        THEN [st EXCEPT !.buf = <<>>, !.readPrefix = TRUE,
                        !.skipLine = (buf1 # msgPrefix)]
        ELSE IF st.readPrefix /\ Unmarshal(buf1) = "ready"
        THEN [st EXCEPT !.buf = <<>>, !.ready = TRUE, !.signalled = TRUE]
        ELSE [st EXCEPT !.buf = buf1]
    ELSE st

\* the body of the loop of recvWriter.Write for the byte b; nothing is done
\* once the Write has returned an error
recvWriterByte(st, b) ==
    IF st.err # "nil" THEN st
    ELSE IF b = LF THEN
        IF st.readPrefix /\ ~st.skipLine THEN
            LET d == Unmarshal(st.buf) IN
            IF d = "errUnmarshal" THEN [st EXCEPT !.err = "errUnmarshal"]
            ELSE IF d = "ready" THEN
                recvWriterReset([st EXCEPT !.ready = TRUE,
                                           !.signalled = TRUE])
            ELSE IF d = "vars" THEN
                recvWriterReset(
                    [st EXCEPT !.vars = mergeMaps(@, UnmarshalVars),
                               !.decoded = Append(@, UnmarshalVars),
                               !.signalled = TRUE])
            ELSE [st EXCEPT !.err = "errUnknownType"]
        ELSE recvWriterReset(st)
    ELSE IF ~st.skipLine THEN
        LET buf1 == Append(st.buf, b) IN
        IF ~st.readPrefix /\ Len(buf1) = Len(msgPrefix)
        THEN [st EXCEPT !.buf = <<>>, !.readPrefix = TRUE,
                        !.skipLine = (buf1 # msgPrefix)]
        ELSE [st EXCEPT !.buf = buf1]
    ELSE st

\* for _, b := range p
RECURSIVE RangeBytes(_, _)
RangeBytes(st, p) ==
    IF p = <<>> THEN st
    ELSE RangeBytes(recvWriterByte(st, Head(p)), Tail(p))

\* a variant whose line state does not outlive the Write
recvWriterBytesFresh(st, p) == RangeBytes(recvWriterReset(st), p)

\* recvWriter.Write(p) on the state st
recvWriterBytes(st, p) == RangeBytes(st, p)

\* the child's stdout bytes p reach the decoder in one Write
recvWriterWriteChunk(p) ==
    /\ reaperPc = "wait"
    /\ recv.err = "nil"
    /\ Len(sent) + Len(p) <= MaxBytes
    /\ LET st == recvWriterBytes(WriterState, p) IN
          /\ recv' = [buf |-> st.buf, readPrefix |-> st.readPrefix,
                      skipLine |-> st.skipLine, err |-> st.err]
          /\ recvReady' = st.ready
          /\ recvVars' = st.vars
          /\ decoded' = st.decoded
          /\ copyErr' = (st.err # "nil")
          /\ pc' \in IF st.signalled THEN CondSignal(pc) ELSE {pc}
    /\ sent' = sent \o p
    /\ UNCHANGED <<cfgVars, stdinVars, copyVars, procEnv, clones,
                   stdinWriteCloser, calledStart, calledWait, started, exited,
                   stdoutWriters, stderrWriters, closers, waitChan,
                   calledCleanup, procState, exitStatus, reaperPc, waitErr,
                   want, res, ret, closeCalls, ghostVars>>

----------------------------------------------------------------------------
(* Pid *)

\* c.c.Process.Pid: the identifier the OS gave to the process start() launched
ProcessPid == 100 + procCount

pidResultAfterCalledStart == IF ~calledStart THEN -1 ELSE ProcessPid

\* the value of Pid()
pidResult == IF ~started THEN -1 ELSE ProcessPid

\* Pid(): no error, and c.Err is left as it was
pid(t) ==
    /\ Idle(t)
    /\ Return(t, [NoRet EXCEPT !.op = "pid", !.exited = exited,
                               !.Err = ret[t].Err, !.pid = pidResult])
    /\ UNCHANGED <<cfgVars, auxVars, decoded, clones, stdinWriteCloser,
                   calledStart, calledWait, started, exited, stdoutWriters,
                   stderrWriters, closers, recvReady, recvVars, waitChan,
                   calledCleanup, procState, exitStatus, copyErr, reaperPc,
                   waitErr, want, res, closeCalls, ghostVars>>

----------------------------------------------------------------------------
(* Specifications *)

\* sink registration, before start
Configure(t) ==
    \/ \E wc \in {CallerSink, OsStdout, OsStderr} : addStdoutWriter(t, wc)
    \/ \E wc \in {CallerSink, OsStdout, OsStderr} : addStderrWriter(t, wc)
    \/ stdoutPipe(t)
    \/ stderrPipe(t)
    \/ stdinPipe(t)

\* start, wait, signal, terminate
Lifecycle(t) ==
    \/ \E op \in {"start", "run"}, o \in StartOutcomes : start(t, op, o)
    \/ wait(t)
    \/ waitRecv(t)
    \/ \E op \in {"signal", "terminate"} : signalEnter(t, op)
    \/ \E o \in {"delivered", "finished", "failed"} : signalSend(t, o)

\* awaitReady, awaitVars
Handshake(t) ==
    \/ awaitReadyEnter(t)
    \/ awaitReadyEval(t)
    \/ \E keys \in KeyLists : awaitVarsEnter(t, keys)
    \/ awaitVarsEval(t)

\* the exit-waiter goroutine
ExitWaiter ==
    \/ exitWaiterWait
    \/ exitWaiterSetExited
    \/ exitWaiterClose
    \/ exitWaiterSend

\* The handle's lifecycle and its resource registry, driven by the one caller
\* goroutine the handle supports.  The child writes lines that carry no
\* handshake message: no action here reads recvReady or recvVars.
Next ==
    \/ Configure(Main)
    \/ Lifecycle(Main)
    \/ \E line \in {l \in Lines : l.kind \in {"bad", "unknown", "plain"}} :
          recvWriterWrite(line)
    \/ \E status \in ExitStatuses : processExit(status)
    \/ ExitWaiter
    \/ ~calledStart /\ shellCleanup

Spec == Init /\ [][Next]_vars

\* The exit-waiter goroutine is scheduled; nothing is assumed of the caller
\* or of the child.
FairSpec ==
    /\ Spec
    /\ WF_vars(exitWaiterWait)
    /\ WF_vars(exitWaiterSetExited)
    /\ WF_vars(exitWaiterClose)
    /\ WF_vars(exitWaiterSend)

\* The handshake: the child's messages, the awaiting caller and the exit
\* waiter.  No sink is registered by the caller: the await operations and
\* the decoder neither read nor write the sink lists and the registry.
HandshakeNext ==
    \/ \E o \in StartOutcomes : start(Main, "start", o)
    \/ Handshake(Main)
    \/ wait(Main)
    \/ waitRecv(Main)
    \/ \E line \in Lines : recvWriterWrite(line)
    \/ \E status \in ExitStatuses : processExit(status)
    \/ ExitWaiter

HandshakeSpec == Init /\ [][HandshakeNext]_vars

\* The single caller running the handshake, with every goroutine that can
\* run scheduled: the exit waiter, and the caller whenever it holds or can
\* take the lock (it is not blocked in cond.Wait) or can receive from
\* waitChan.  Nothing is assumed of the child.
FairHandshakeSpec ==
    /\ HandshakeSpec
    /\ WF_vars(exitWaiterWait)
    /\ WF_vars(exitWaiterSetExited)
    /\ WF_vars(exitWaiterClose)
    /\ WF_vars(exitWaiterSend)
    /\ WF_vars(awaitReadyEval(Main))
    /\ WF_vars(awaitVarsEval(Main))
    /\ WF_vars(waitRecv(Main))

\* Cloning a handle at any point of its configuration and of its life.
CloneNext ==
    \/ Configure(Main)
    \/ \E o \in StartOutcomes : start(Main, "start", o)
    \/ clone(Main)
    \/ \E status \in ExitStatuses : processExit(status)
    \/ ExitWaiter
    \/ shellCleanup

CloneSpec == Init /\ [][CloneNext]_vars

\* Signalling and terminating the process at any point of the handle's
\* life.  No sink is registered by the caller: signal, terminate and wait
\* do not read the sink lists.
SignalNext ==
    \/ Lifecycle(Main)
    \/ \E line \in {l \in Lines : l.kind \in {"bad", "unknown", "plain"}} :
          recvWriterWrite(line)
    \/ \E status \in ExitStatuses : processExit(status)
    \/ ExitWaiter

SignalSpec == Init /\ [][SignalNext]_vars

\* Every operation the single caller can invoke on a started or unstarted
\* handle, with every line the child can write.  No sink is registered.
CallerNext ==
    \/ Lifecycle(Main)
    \/ Handshake(Main)
    \/ \E line \in Lines : recvWriterWrite(line)
    \/ \E status \in ExitStatuses : processExit(status)
    \/ ExitWaiter

CallerSpec == Init /\ [][CallerNext]_vars

\* The two stdin sources, configured in either order, and start().
StdinNext ==
    \/ \E text \in BOOLEAN : setStdin(Main, text)
    \/ stdinPipe(Main)
    \/ \E op \in {"start", "run"}, o \in StartOutcomes : start(Main, op, o)
    \/ waitRecv(Main)
    \/ \E status \in ExitStatuses : processExit(status)
    \/ ExitWaiter
    \/ shellCleanup

StdinSpec == Init /\ [][StdinNext]_vars

\* Pid() read at any point of the handle's lifecycle.
PidNext ==
    \/ \E op \in {"start", "run"}, o \in StartOutcomes : start(Main, op, o)
    \/ pid(Main)
    \/ wait(Main)
    \/ waitRecv(Main)
    \/ \E status \in ExitStatuses : processExit(status)
    \/ ExitWaiter

PidSpec == Init /\ [][PidNext]_vars

\* start() for every environment, watch setting and duration.
EnvNext ==
    \/ \E o \in StartOutcomes : start(Main, "start", o)
    \/ shellCleanup
    \/ \E status \in ExitStatuses : processExit(status)
    \/ ExitWaiter

EnvSpec == EnvInit /\ [][EnvNext]_vars

\* the Writes the child's stdout is cut into: of one byte and of two
Chunks == {<<b>> : b \in Bytes} \cup {<<b, c>> : b, c \in Bytes}

ByteInit == InitFrom(CHOOSE cfg \in Configs : ~cfg.OutputDir)

\* The decoder fed with every sequence of bytes, cut into Writes in every way.
ByteNext ==
    \/ start(Main, "start", "ok")
    \/ \E p \in Chunks : recvWriterWriteChunk(p)

ByteSpec == ByteInit /\ [][ByteNext]_vars

\* pieces of a ready message and of the lines around it
ReadyChunks == {<<"#", "!">>, <<"r", "r">>, <<"#", "!", "r", "r">>, <<"r">>,
                <<LF>>}

\* A caller in awaitReady while the child writes a ready message, with or
\* without the newline, and exits.
NewlineNext ==
    \/ start(Main, "start", "ok")
    \/ awaitReadyEnter(Main)
    \/ awaitReadyEval(Main)
    \/ \E p \in ReadyChunks : recvWriterWriteChunk(p)
    \/ \E status \in ExitStatuses : processExit(status)
    \/ ExitWaiter

NewlineSpec == ByteInit /\ [][NewlineNext]_vars

\* start() failing in each of its ways, and the operations called afterwards
FailNext ==
    \/ \E text \in BOOLEAN : setStdin(Main, text)
    \/ stdinPipe(Main)
    \/ shellCleanup
    \/ \E op \in {"start", "run"}, o \in StartOutcomes : start(Main, op, o)
    \/ wait(Main)
    \/ waitRecv(Main)
    \/ Handshake(Main)
    \/ \E status \in ExitStatuses : processExit(status)
    \/ ExitWaiter

FailSpec == Init /\ [][FailNext]_vars

\* Every exported operation that passes its error to handleError, called by
\* the single caller at any point of the handle's life.  At most one sink is
\* registered, and the child sends no message but ready.
HookNext ==
    \/ Len(closers) = 0 /\ Configure(Main)
    \/ Lifecycle(Main)
    \/ awaitReadyEnter(Main)
    \/ awaitReadyEval(Main)
    \/ \E keys \in {<<>>, <<"a">>} : awaitVarsEnter(Main, keys)
    \/ awaitVarsEval(Main)
    \/ \E op \in CaptureOps : captureEnter(Main, op)
    \/ \E o \in StartOutcomes : captureRun(Main, o)
    \/ clone(Main)
    \/ shellCleanup
    \/ recvWriterWrite([kind |-> "ready", vars |-> EmptyMap])
    \/ \E status \in ExitStatuses : processExit(status)
    \/ ExitWaiter

HookSpec == Init /\ [][HookNext]_vars

\* The child's output on its way to the sinks: a caller that registers one
\* sink on either stream or on both, the two copying goroutines, every write
\* of a sink on its own.
WriteNext ==
    \/ CallerSink \notin Range(stdoutWriters)
          /\ addStdoutWriter(Main, CallerSink)
    \/ CallerSink \notin Range(stderrWriters)
          /\ addStderrWriter(Main, CallerSink)
    \/ start(Main, "start", "ok")
    \/ \E s \in Streams :
          \/ \E line \in WriteLines(s) : childWrite(s, line)
          \/ copyRead(s)
          \/ copyEOF(s)
          \/ lockedWriterLock(s)
          \/ multiWriterWrite(s)
          \/ multiWriterReturn(s)
    \/ \E status \in ExitStatuses : processExit(status)
    \/ CopyingEnded /\ exitWaiterWait
    \/ exitWaiterSetExited
    \/ exitWaiterClose
    \/ exitWaiterSend

WriteSpec == Init /\ [][WriteNext]_vars

\* start() and clone() of one goroutine against the Shell's cleanup in another,
\* every step on cleanupMu apart.
LockNext ==
    \/ Configure(Main)
    \/ startEnter(Main)
    \/ startLock(Main)
    \/ startCheck(Main)
    \/ \E o \in StartOutcomes : startLaunch(Main, o)
    \/ cloneLock(Main)
    \/ cloneCheck(Main)
    \/ cloneRegister(Main)
    \/ \E t \in Threads \ {Main} :
          \/ cleanupLock(t)
          \/ cleanupSetFlag(t)
          \/ cleanupUnlock(t)
    \/ \E status \in ExitStatuses : processExit(status)
    \/ ExitWaiter

LockSpec == Init /\ [][LockNext]_vars

\* Two goroutines calling the await operations of one handle.
ConcurrentNext ==
    \/ start(Main, "start", "ok")
    \/ \E t \in Threads :
          \/ awaitReadyEnter(t)
          \/ awaitReadyEval(t)
          \/ \E keys \in {<<"a">>, <<"a", "b">>} : awaitVarsEnter(t, keys)
          \/ awaitVarsEval(t)
    \/ \E line \in Lines : recvWriterWrite(line)
    \/ \E status \in ExitStatuses : processExit(status)
    \/ ExitWaiter

ConcurrentInit == Init /\ ~OutputDir

ConcurrentSpec == ConcurrentInit /\ [][ConcurrentNext]_vars

----------------------------------------------------------------------------
(* Properties *)

TerminalResults == {"nil", "ExitError", "decodeError"}

\* the closers on which Close has been invoked
Closed == {w \in AllClosers : closeCalls[w] > 0}

\* caller t's last operation was a wait (alone, or within run or terminate)
\* that returned the terminal result
WaitReturned(t) ==
    /\ pc[t] = "idle"
    /\ ret[t].op \in {"wait", "run", "terminate"}
    /\ ret[t].err \in TerminalResults
    /\ ret[t].exited

\* C1: over any sequence of handle operations, Close is invoked at most once
\* on every registered closer.
C1_CloseAtMostOnce == \A w \in AllClosers : closeCalls[w] <= 1

\* C2: whenever waitChan holds a value or a wait has returned the terminal
\* result, exited is set and Close has been invoked on every registered
\* closer: the exit waiter sets exited, then closes, then sends.
C2_ResultAfterTeardown ==
    (waitChan # <<>> \/ chanReads > 0 \/ \E t \in Threads : WaitReturned(t))
        => exited /\ Range(closers) \subseteq Closed

C2_Witness ==
    /\ WaitReturned(Main)
    /\ ret[Main].op = "wait"
    /\ Len(closers) = 2
    /\ Range(closers) \subseteq Closed

\* C3: waitChan holds at most one value; at most one value is ever sent on
\* it, exactly one once the exit waiter has finished, none while the handle
\* is not started; and each send is the exit waiter's last step.
C3_SingleCompletion ==
    /\ [](/\ Len(waitChan) <= 1
          /\ chanWrites <= 1
          /\ (~started => chanWrites = 0 /\ waitChan = <<>>)
          /\ (reaperPc = "done" => chanWrites = 1))
    /\ [][(chanWrites' # chanWrites \/ Len(waitChan') > Len(waitChan))
            => /\ reaperPc = "send" /\ reaperPc' = "done"
               /\ waitChan' = Append(waitChan, waitErr)]_vars

C3_Witness == chanWrites = 1 /\ waitChan # <<>> /\ reaperPc = "done"

\* C4 as claimed: on every handle, a wait() that follows a wait() returns
\* the already-called-wait error.
C4_SecondWaitOnAnyHandle ==
    \A t \in Threads :
        (pc[t] = "idle" /\ ret[t].op = "wait" /\ ret[t].again)
            => ret[t].err = "errAlreadyCalledWait"

\* C4 amended: once a wait() has been accepted (it found the handle started
\* and set calledWait), every later wait() returns the already-called-wait
\* error at once and leaves waitChan alone, and the terminal result is
\* received at most once, by the accepted call; a wait() on a handle that is
\* not started returns the did-not-start error and leaves calledWait unset.
C4_WaitAfterAcceptedWait ==
    /\ [][\A t \in Threads :
            /\ (wait(t) /\ calledWait) =>
                  /\ ret'[t].err = "errAlreadyCalledWait"
                  /\ pc'[t] = "idle"
                  /\ UNCHANGED <<waitChan, chanReads, calledWait>>
            /\ (wait(t) /\ ~started) =>
                  /\ ret'[t].err = "errDidNotCallStart"
                  /\ pc'[t] = "idle"
                  /\ UNCHANGED <<waitChan, chanReads, calledWait>>]_vars
    /\ [](chanReads <= 1)
    /\ [](\A t \in Threads : pc[t] \in {"wait", "run", "terminate"} => calledWait)

C4_Witness ==
    /\ pc[Main] = "idle"
    /\ ret[Main].op = "wait"
    /\ ret[Main].again
    /\ ret[Main].err = "errAlreadyCalledWait"
    /\ chanReads = 1
    /\ waitChan = <<>>

\* C5: a start() on a handle whose start guard is set returns the
\* already-started error and launches no process, spawns no exit waiter and
\* changes neither the sink lists, nor the flags, nor which closers are
\* closed.
C5_SecondStartRejected ==
    [][\A op \in {"start", "run"} :
          (calledStart /\ start(Main, op, "ok")) =>
              /\ ret'[Main].err = "errAlreadyCalledStart"
              /\ pc'[Main] = "idle"
              /\ UNCHANGED <<procCount, reaperCount, procState, reaperPc,
                             stdoutWriters, stderrWriters, closers,
                             stdinWriteCloser, calledStart, calledWait,
                             started, exited, cfgVars, waitChan>>
              /\ Closed' = Closed]_vars

C5_Witness ==
    /\ ret[Main].op = "start"
    /\ ret[Main].err = "errAlreadyCalledStart"
    /\ ~started
    /\ Len(closers) = 2
    /\ \E w \in Range(closers) : closeCalls[w] = 2

\* C6: awaitReady returns only when ready is set or the process has exited;
\* it returns success only with ready set, and the process-exited error only
\* when the process has exited and ready has never been set.
C6_AwaitReadyResult ==
    /\ [][\A t \in Threads :
            (awaitReadyEval(t) /\ pc'[t] = "idle") =>
                /\ recvReady \/ exited
                /\ ret'[t].err = IF recvReady THEN "nil" ELSE "errProcessExited"]_vars
    /\ [](\A t \in Threads :
            (pc[t] = "idle" /\ ret[t].op = "awaitReady") =>
                /\ ret[t].err = "nil" => recvReady
                /\ ret[t].err = "errProcessExited" => exited /\ ~recvReady
                /\ ret[t].err = "errDidNotCallStart" => ~started
                /\ ret[t].err = "errAlreadyCalledWait" => calledWait)
    /\ [](\A t \in Threads :
            pc[t] \in {"awaitReadyLock", "awaitReadyBlocked", "awaitReadyWoken"}
                => started)

C6_Witness ==
    /\ pc[Main] = "idle"
    /\ ret[Main].op = "awaitReady"
    /\ ret[Main].err = "errProcessExited"
    /\ exited /\ ~recvReady

\* C7 as claimed: when the awaited condition and the exit have both occurred
\* by the time the caller evaluates its predicate, the call reports the
\* process-exited error.
C7_ExitWins ==
    [][\A t \in Threads :
          /\ (awaitReadyEval(t) /\ exited /\ recvReady)
                => ret'[t].err = "errProcessExited"
          /\ (awaitVarsEval(t) /\ exited /\ want[t] \subseteq MapKeys(recvVars))
                => ret'[t].err = "errProcessExited"]_vars

\* C7 amended: when the awaited condition and the exit have both occurred by
\* the time the caller evaluates its predicate, the awaited condition wins:
\* the call reports success; the process-exited error is reported only when
\* the awaited condition is not satisfied.
C7_ConditionWins ==
    [][\A t \in Threads :
          /\ (awaitReadyEval(t) /\ exited /\ recvReady)
                => ret'[t].err = "nil" /\ pc'[t] = "idle"
          /\ (awaitVarsEval(t) /\ exited /\ want[t] \subseteq MapKeys(recvVars))
                => ret'[t].err = "nil" /\ pc'[t] = "idle"
          /\ (awaitReadyEval(t) /\ ret'[t].err = "errProcessExited")
                => ~recvReady
          /\ (awaitVarsEval(t) /\ ret'[t].err = "errProcessExited")
                => ~(want[t] \subseteq MapKeys(recvVars))]_vars

C7_Witness ==
    /\ pc[Main] = "idle"
    /\ ret[Main].op = "awaitReady"
    /\ ret[Main].err = "nil"
    /\ ret[Main].exited
    /\ recvReady

\* C8: awaitVars(keys) returns only when every requested key is in recvVars
\* or the process has exited; on success the returned mapping has exactly
\* the requested keys, each with its value in recvVars; the process-exited
\* error is returned when the process has exited and a requested key is
\* missing.
C8_AwaitVarsResult ==
    /\ [][\A t \in Threads :
            (awaitVarsEval(t) /\ pc'[t] = "idle") =>
                /\ want[t] \subseteq MapKeys(recvVars) \/ exited
                /\ IF want[t] \subseteq MapKeys(recvVars)
                   THEN /\ ret'[t].err = "nil"
                        /\ MapKeys(ret'[t].val) = want[t]
                        /\ \A k \in want[t] : ret'[t].val[k] = recvVars[k]
                   ELSE /\ ret'[t].err = "errProcessExited"
                        /\ ret'[t].val = EmptyMap]_vars
    /\ [][\A t \in Threads :
            (awaitVarsEval(t) /\ pc'[t] # "idle") =>
                ~exited /\ ~(want[t] \subseteq MapKeys(recvVars))]_vars
    /\ [](\A t \in Threads :
            pc[t] \in {"awaitVarsLock", "awaitVarsBlocked", "awaitVarsWoken"}
                => started)

C8_Witness ==
    /\ pc[Main] = "idle"
    /\ ret[Main].op = "awaitVars"
    /\ ret[Main].err = "nil"
    /\ ret[Main].val = [k \in Keys |-> IF k = "a" THEN "2" ELSE "3"]
    /\ ~exited

\* the predicate caller t is waiting for holds
Satisfied(t) ==
    \/ exited
    \/ pc[t] = "awaitReadyBlocked" /\ recvReady
    \/ pc[t] = "awaitVarsBlocked" /\ want[t] \subseteq MapKeys(recvVars)

\* a step that changes the handshake state
HandshakeChange ==
    recvReady' # recvReady \/ recvVars' # recvVars \/ exited' # exited

\* C9 as claimed: every change of the handshake state wakes all blocked
\* waiters, so no caller stays blocked on the condition variable while its
\* predicate holds.
C9_AllWaitersWoken == \A t \in waiters : ~Satisfied(t)

\* C9 amended: every change of the handshake state (ready decoded, vars
\* merged, exited set) wakes exactly one of the callers blocked on the
\* condition variable, if there is one (cond.Signal, not a broadcast): the
\* one waiter of a single caller never stays blocked after a change, and of
\* several blocked waiters all but one stay blocked.
C9_OneWaiterWoken ==
    [][HandshakeChange =>
          /\ waiters # {} =>
                /\ waiters' \subseteq waiters
                /\ Cardinality(waiters') = Cardinality(waiters) - 1
          /\ \A t \in Threads : pc'[t] # pc[t] =>
                pc[t] \in Blocked /\ pc'[t] = Woken(pc[t])]_vars

C9_Witness ==
    /\ pc[Main] = "awaitReadyWoken"
    /\ pc["other"] = "awaitReadyBlocked"
    /\ recvReady
    /\ ~exited

\* C10: once the OS process has terminated the exit waiter finishes, whether
\* or not the caller ever calls wait(); when it has finished exited is set,
\* every registered closer is closed and the terminal result has been sent
\* on waitChan; the exit waiter gets past exec.Cmd.Wait only once.
C10_ExitWaiterFinishes ==
    /\ (procState = "terminated") ~> (reaperPc = "done")
    /\ [](reaperPc = "done" =>
            /\ exited
            /\ Range(closers) \subseteq Closed
            /\ chanWrites = 1
            /\ (chanReads = 0 => waitChan = <<waitErr>>))
    /\ [](reaperCount <= 1)
    /\ [][reaperPc \notin {"none", "wait"} => reaperPc' # "wait"]_vars

C10_Witness ==
    /\ reaperPc = "done"
    /\ ~calledWait
    /\ waitChan # <<>>
    /\ Len(closers) = 2
    /\ Range(closers) \subseteq Closed

\* the caller is inside awaitReady / awaitVars: about to take the lock,
\* blocked in cond.Wait, or woken from it
InAwaitReady(t) ==
    pc[t] \in {"awaitReadyLock", "awaitReadyBlocked", "awaitReadyWoken"}
InAwaitVars(t) ==
    pc[t] \in {"awaitVarsLock", "awaitVarsBlocked", "awaitVarsWoken"}

\* C11: the single caller is never left waiting: a caller inside awaitReady,
\* awaitVars or wait returns once the process has terminated, and a caller
\* inside awaitReady / awaitVars returns once ready has been decoded / all
\* the keys it still waits for have been received, wherever in the
\* operation the caller was when the change happened.
C11_CallerReleased ==
    /\ (procState = "terminated" /\ (InAwaitReady(Main) \/ InAwaitVars(Main)))
           ~> (pc[Main] = "idle")
    /\ (procState = "terminated" /\ pc[Main] = "wait") ~> (pc[Main] = "idle")
    /\ (recvReady /\ InAwaitReady(Main)) ~> (pc[Main] = "idle")
    /\ (want[Main] \subseteq MapKeys(recvVars) /\ InAwaitVars(Main))
           ~> (pc[Main] = "idle")

\* the caller was blocked in cond.Wait and has been woken by the exit
\* waiter, the child having sent nothing
C11_Witness ==
    /\ pc[Main] = "awaitVarsWoken"
    /\ want[Main] = {"a", "b"}
    /\ exited
    /\ MapKeys(recvVars) = {}

\* C12: no step removes a key from recvVars, and no step clears recvReady.
C12_HandshakeMonotone ==
    [][/\ MapKeys(recvVars) \subseteq MapKeys(recvVars')
       /\ (recvReady => recvReady')]_vars

\* a message without key b has been merged after one that carried it
C12_Witness ==
    /\ Len(decoded) = 2
    /\ decoded[1]["b"] = "3"
    /\ decoded[2]["b"] = NoVal
    /\ recvVars["b"] = "3"
    /\ recvReady

\* the value of key k in the last message of msgs that contains k
RECURSIVE LastValue(_, _)
LastValue(k, msgs) ==
    IF msgs = <<>> THEN NoVal
    ELSE IF msgs[Len(msgs)][k] # NoVal THEN msgs[Len(msgs)][k]
    ELSE LastValue(k, SubSeq(msgs, 1, Len(msgs) - 1))

\* C13: recvVars holds, for each key, the value carried by the last decoded
\* variables message that contained the key, and no other key.
C13_LastWriterWins == recvVars = [k \in Keys |-> LastValue(k, decoded)]

\* {a:1} then {a:2,b:3} has been decoded
C13_Witness ==
    /\ Len(decoded) = 2
    /\ decoded[1]["a"] = "1" /\ decoded[1]["b"] = NoVal
    /\ decoded[2]["a"] = "2" /\ decoded[2]["b"] = "3"
    /\ recvVars["a"] = "2" /\ recvVars["b"] = "3"

\* the caller's signal() step that ends in c.c.Process.Signal(sig)
Forwarded(t) == pc'[t] = "signalSend"

\* C14 as claimed: signal() forwards the signal exactly when the process is
\* started and has not exited, and otherwise returns nil, also on a handle
\* that was never started; a forwarding that finds the process finished
\* returns nil.
C14_SignalNoOpUnlessRunning ==
    [][\A t \in Threads :
          /\ signalEnter(t, "signal") =>
                IF started /\ ~exited THEN Forwarded(t)
                ELSE pc'[t] = "idle" /\ ret'[t].err = "nil"
          /\ (pc[t] = "signalSend" /\ signalSend(t, "finished")) =>
                ret'[t].err = "nil"]_vars

\* C14 amended: signal() returns errDidNotCallStart on a handle that was not
\* started and errAlreadyCalledWait once wait() has been called; on a
\* started handle before wait() it forwards the signal exactly when exited
\* is unset and returns nil without forwarding when exited is set; a
\* forwarding that finds the process finished returns nil.
C14_SignalOutcome ==
    [][\A t \in Threads :
          /\ signalEnter(t, "signal") =>
                /\ Forwarded(t) <=> (started /\ ~calledWait /\ ~exited)
                /\ ~Forwarded(t) =>
                      /\ pc'[t] = "idle"
                      /\ ret'[t].err =
                            IF ~started THEN "errDidNotCallStart"
                            ELSE IF calledWait THEN "errAlreadyCalledWait"
                            ELSE "nil"
          /\ (pc[t] = "signalSend" /\ signalSend(t, "finished")) =>
                ret'[t].err = "nil"]_vars

\* signal() has returned nil on a process that had exited, before any wait()
C14_Witness ==
    /\ pc[Main] = "idle"
    /\ ret[Main].op = "signal"
    /\ ret[Main].err = "nil"
    /\ ret[Main].exited
    /\ ~calledWait

\* the handle's own state, as opposed to the callers' positions and results
handleVars == <<cfgVars, stdinWriteCloser, calledStart, calledWait, started,
                exited, stdoutWriters, stderrWriters, closers, recvReady,
                recvVars, waitChan>>

\* C15 as claimed: on a handle whose process has exited, every signal() and
\* every terminate() succeeds and changes no handle state, also after a
\* previous terminate() or wait().
C15_IdempotentAfterExit ==
    [][\A t \in Threads, op \in {"signal", "terminate"} :
          (exited /\ signalEnter(t, op)) =>
              /\ pc'[t] = "idle" => ret'[t].err = "nil"
              /\ UNCHANGED handleVars]_vars

\* C15 amended: on a handle whose process has exited, signal() returns nil
\* and changes no handle state as long as wait() has not been called; the
\* first terminate() sets calledWait and goes on to receive the terminal
\* result; once wait() has been called (by wait, run or terminate), every
\* signal() and terminate() returns errAlreadyCalledWait and changes no
\* handle state.
C15_AfterExit ==
    [][\A t \in Threads, op \in {"signal", "terminate"} :
          (exited /\ signalEnter(t, op)) =>
              IF calledWait
              THEN /\ pc'[t] = "idle"
                   /\ ret'[t].err = "errAlreadyCalledWait"
                   /\ UNCHANGED handleVars
              ELSE IF op = "signal"
              THEN /\ pc'[t] = "idle"
                   /\ ret'[t].err = "nil"
                   /\ UNCHANGED handleVars
              ELSE /\ pc'[t] = "terminate"
                   /\ calledWait']_vars

\* a terminate() after a terminate() that collected the exited process
C15_Witness ==
    /\ pc[Main] = "idle"
    /\ ret[Main].op = "terminate"
    /\ ret[Main].err = "errAlreadyCalledWait"
    /\ exited
    /\ chanReads = 1

\* C16: a terminate() that gets to forward the signal returns the signal's
\* failure, leaving calledWait unset and waitChan untouched, when
\* Process.Signal fails; otherwise it sets calledWait and receives the
\* terminal result, returning nil when that is nil or an exit error and the
\* result itself when it is anything else.
C16_TerminateResult ==
    [][\A t \in Threads :
          /\ (pc[t] = "terminateSend" /\ signalSend(t, "failed")) =>
                /\ pc'[t] = "idle"
                /\ ret'[t].err = "errSignal"
                /\ ~calledWait'
                /\ UNCHANGED <<waitChan, chanReads>>
          /\ \A o \in {"delivered", "finished"} :
                (pc[t] = "terminateSend" /\ signalSend(t, o)) =>
                    calledWait' /\ pc'[t] = "terminate"
          /\ (pc[t] = "terminate" /\ waitRecv(t)) =>
                /\ pc'[t] = "idle"
                /\ ret'[t].op = "terminate"
                /\ waitErr \in {"nil", "ExitError"} => ret'[t].err = "nil"
                /\ waitErr \notin {"nil", "ExitError"} =>
                      ret'[t].err = waitErr]_vars

\* terminate() has returned nil for a process that exited with a nonzero
\* status
C16_Witness ==
    /\ pc[Main] = "idle"
    /\ ret[Main].op = "terminate"
    /\ ret[Main].err = "nil"
    /\ waitErr = "ExitError"
    /\ chanReads = 1

\* a handle in the Configuring state: no guard or flag set, nothing received,
\* no sink and no closer
Fresh(h) ==
    /\ ~h.calledStart /\ ~h.calledWait /\ ~h.started /\ ~h.exited
    /\ ~h.recvReady /\ h.recvVars = EmptyMap
    /\ ~h.stdinWriteCloser
    /\ h.stdoutWriters = <<>> /\ h.stderrWriters = <<>> /\ h.closers = <<>>

\* handle h has the path, arguments, environment and scalar flags of the
\* original
SameConfiguration(h) ==
    /\ h.Path = Path /\ h.Args = Args /\ h.Vars = Vars
    /\ h.IgnoreParentExit = IgnoreParentExit
    /\ h.ExitAfter = ExitAfter
    /\ h.PropagateOutput = PropagateOutput
    /\ h.OutputDir = OutputDir
    /\ h.ExitErrorIsOk = ExitErrorIsOk

\* C17 as claimed: every handle returned by clone() is fresh, has the
\* original's configuration, and has no stdin text.
C17_CloneWithoutStdin ==
    \A i \in 1..Len(clones) :
        Fresh(clones[i]) /\ SameConfiguration(clones[i]) /\ ~clones[i].Stdin

\* C17 amended: every handle returned by clone() is fresh, has the
\* original's configuration, and has the original's stdin text; the
\* original's stdin sink, sink lists and closers are not copied.
C17_CloneCopiesConfiguration ==
    \A i \in 1..Len(clones) :
        /\ Fresh(clones[i])
        /\ SameConfiguration(clones[i])
        /\ clones[i].Stdin = Stdin

\* a clone of a handle with stdin text, a stdin sink and two output sinks
C17_Witness ==
    /\ clones # <<>>
    /\ Stdin
    /\ Len(Args) = 2
    /\ stdinWriteCloser
    /\ Len(stdoutWriters) + Len(stderrWriters) = 2
    /\ ret[Main].op = "clone"

\* C18 as claimed: clone() on a handle on which start() has been called
\* returns an error and creates no handle.
C18_CloneRejectedAfterStart ==
    [][\A t \in Threads :
          (calledStart /\ clone(t)) =>
              ret'[t].err # "nil" /\ clones' = clones]_vars

\* C18 amended: clone() is not tied to the state of the handle: it fails,
\* with errAlreadyCalledCleanup, exactly when the Shell has begun its
\* cleanup, and otherwise creates a fresh handle, also after start() has
\* been called and after the process has exited.
C18_CloneRejectedByCleanupOnly ==
    [][\A t \in Threads :
          clone(t) =>
              IF calledCleanup
              THEN /\ ret'[t].err = "errAlreadyCalledCleanup"
                   /\ clones' = clones
              ELSE /\ ret'[t].err = "nil"
                   /\ Len(clones') = Len(clones) + 1
                   /\ Fresh(clones'[Len(clones')])]_vars

\* clone() has returned a handle after the original's process exited
C18_Witness ==
    /\ ret[Main].op = "clone"
    /\ ret[Main].err = "nil"
    /\ ret[Main].exited
    /\ clones # <<>>

\* the sinks and closers attached to the handle
sinkVars == <<stdoutWriters, stderrWriters, stdinWriteCloser, closers>>

\* C19: once start() has been called, whether it succeeded or not, each of
\* stdinPipe, stdoutPipe, stderrPipe, addStdoutWriter and addStderrWriter
\* returns errAlreadyCalledStart, and no step changes the sink lists, the
\* stdin sink or the list of closers.
C19_NoSinkAfterStart ==
    [][calledStart =>
          /\ UNCHANGED sinkVars
          /\ \A t \in Threads :
                (\/ stdinPipe(t) \/ stdoutPipe(t) \/ stderrPipe(t)
                 \/ \E wc \in {CallerSink, OsStdout, OsStderr} :
                       addStdoutWriter(t, wc) \/ addStderrWriter(t, wc))
                => /\ pc'[t] = "idle"
                   /\ ret'[t].err = "errAlreadyCalledStart"]_vars

\* stdinPipe() has been rejected after a start() that failed
C19_Witness ==
    /\ calledStart /\ ~started
    /\ ~stdinWriteCloser
    /\ ret[Main].op = "stdinPipe"
    /\ ret[Main].err = "errAlreadyCalledStart"

\* both stdin sources are configured
BothStdin == Stdin /\ stdinWriteCloser

\* no OS process has been launched for the handle
NotLaunched == ~started /\ procCount = 0 /\ procState = "none"

\* C20 as claimed: a start() (or run()) on a handle with both stdin sources
\* configured, the first one on that handle, returns the conflicting-stdin
\* error, and such a handle is never started.
C20_StdinConflictError ==
    /\ [](BothStdin => NotLaunched)
    /\ [][\A t \in Threads, op \in {"start", "run"} :
            (BothStdin /\ ~calledStart /\ start(t, op, "ok")) =>
                ret'[t].err = "errStdinConflict"]_vars

\* C20 amended: a handle with both stdin sources configured is never
\* started and no process is launched for it; its first start() (or run())
\* returns the conflicting-stdin error unless the Shell has begun its
\* cleanup, which start() checks first and reports as
\* errAlreadyCalledCleanup.
C20_StdinConflictNeverStarted ==
    /\ [](BothStdin => NotLaunched)
    /\ [][\A t \in Threads, op \in {"start", "run"} :
            (BothStdin /\ ~calledStart /\ start(t, op, "ok")) =>
                /\ pc'[t] = "idle"
                /\ ret'[t].err = IF calledCleanup
                                 THEN "errAlreadyCalledCleanup"
                                 ELSE "errStdinConflict"
                /\ NotLaunched']_vars

\* start() has been rejected for a handle that was created without stdin
\* text, and on which the text was set and the stdin sink opened
C20_Witness ==
    /\ BothStdin
    /\ calledStart
    /\ ret[Main].op = "start"
    /\ ret[Main].err = "errStdinConflict"
    /\ Path = "/bin/true"

\* the prefixed lines that do not decode
BadLines == {l \in Lines : l.kind \in {"bad", "unknown"}}

\* C26: the decoder's write of a prefixed line that is not JSON or has an
\* unknown type fails; after such a failure the terminal result, which
\* wait() returns, is the decode error when the process exits with status 0
\* and the exit error when it exits with another status.
C26_DecodeErrorResult ==
    /\ [][\A line \in BadLines : recvWriterWrite(line) => copyErr']_vars
    /\ []((copyErr /\ reaperPc \notin {"none", "wait"}) =>
             waitErr = IF exitStatus = 0 THEN "decodeError" ELSE "ExitError")
    /\ []((copyErr /\ pc[Main] = "idle" /\ ret[Main].op = "wait"
                   /\ ret[Main].err \in TerminalResults) =>
             ret[Main].err = IF exitStatus = 0 THEN "decodeError"
                             ELSE "ExitError")

\* wait() has returned the decode error of a process that exited with
\* status 0
C26_Witness ==
    /\ pc[Main] = "idle"
    /\ ret[Main].op = "wait"
    /\ ret[Main].err = "decodeError"
    /\ exitStatus = 0
    /\ procState = "terminated"

\* C27: once the exit waiter has run closeClosers, every closer of the list
\* has had Close invoked exactly once, however many times it is in the
\* list.
C27_ClosedOnceAfterExit ==
    reaperPc \in {"send", "done"} =>
        \A w \in Range(closers) : closeCalls[w] = 1

\* the same sink was registered for stdout and for stderr, and the process
\* has exited
C27_Witness ==
    /\ reaperPc = "done"
    /\ closers = <<CallerSink, CallerSink>>
    /\ CallerSink \in Range(stdoutWriters)
    /\ CallerSink \in Range(stderrWriters)
    /\ closeCalls[CallerSink] = 1

\* caller t enters awaitReady or awaitVars
AwaitEnter(t) ==
    awaitReadyEnter(t) \/ \E keys \in KeyLists : awaitVarsEnter(t, keys)

\* C29: on a handle that is not started, awaitReady, awaitVars and wait
\* return errDidNotCallStart at once; on a started handle on which wait()
\* has been called, awaitReady and awaitVars return errAlreadyCalledWait at
\* once; a rejected call changes no handle state, calledWait included.
C29_StateWindow ==
    [][\A t \in Threads :
          /\ (~started /\ (AwaitEnter(t) \/ wait(t))) =>
                /\ pc'[t] = "idle"
                /\ ret'[t].err = "errDidNotCallStart"
                /\ UNCHANGED handleVars
          /\ (started /\ calledWait /\ AwaitEnter(t)) =>
                /\ pc'[t] = "idle"
                /\ ret'[t].err = "errAlreadyCalledWait"
                /\ UNCHANGED handleVars]_vars

\* wait() has been rejected on a handle whose start() failed
C29_Witness ==
    /\ calledStart /\ ~started
    /\ pc[Main] = "idle"
    /\ ret[Main].op = "wait"
    /\ ret[Main].err = "errDidNotCallStart"
    /\ ~calledWait

\* C30: exited changes only from false to true, only in the exit waiter's
\* step after exec.Cmd.Wait has returned for a process that was launched
\* and has terminated; no caller operation returns in that step, and the
\* decoder state does not change in it.
C30_ExitedSetByExitWaiter ==
    /\ [][exited' # exited =>
             /\ ~exited /\ exited'
             /\ reaperPc = "lock" /\ reaperPc' = "close"
             /\ started /\ procCount = 1 /\ procState = "terminated"
             /\ UNCHANGED <<ret, recvReady, recvVars, calledStart, calledWait,
                            started>>]_vars
    /\ [](exited => started /\ procState = "terminated")

\* exited is set while the caller is inside terminate() and after the
\* decoder has handled a message
C30_Witness ==
    /\ exited
    /\ reaperPc = "close"
    /\ pc[Main] = "terminate"
    /\ recvReady

\* C28 as claimed: when Run() ends for a process that exited with a nonzero
\* status, without ExitErrorIsOk run() has returned the exit error, which
\* is in c.Err and has been passed to the Shell; with ExitErrorIsOk c.Err
\* is nil and nothing has been passed to the Shell.
C28_RunErrEmptyWhenOk ==
    [][\A t \in Threads :
          (pc[t] = "run" /\ waitRecv(t) /\ exitStatus # 0) =>
              IF ExitErrorIsOk
              THEN ret'[t].Err = "nil" /\ ~ret'[t].reported
              ELSE /\ ret'[t].err = "ExitError"
                   /\ ret'[t].Err = "ExitError"
                   /\ ret'[t].reported]_vars

\* C28 amended: when Run() ends for a process that exited with a nonzero
\* status, run() has returned the exit error and c.Err is that error,
\* with ExitErrorIsOk or without; the error has been passed to the Shell
\* exactly when ExitErrorIsOk is unset.
C28_RunErrKept ==
    [][\A t \in Threads :
          (pc[t] = "run" /\ waitRecv(t) /\ exitStatus # 0) =>
              /\ ret'[t].err = "ExitError"
              /\ ret'[t].Err = "ExitError"
              /\ ret'[t].reported = ~ExitErrorIsOk]_vars

\* Run() has ended with ExitErrorIsOk set for a process that exited with a
\* nonzero status
C28_Witness ==
    /\ ExitErrorIsOk
    /\ pc[Main] = "idle"
    /\ ret[Main].op = "run"
    /\ ret[Main].err = "ExitError"
    /\ ~ret[Main].reported
    /\ exitStatus # 0

\* C21: exec.Cmd.StdinPipe is called at most once for a handle, and every
\* stdinPipe() that succeeds returns the pipe that call created.
C21_OneStdinPipe ==
    /\ stdinPipes <= 1
    /\ stdinWriteCloser <=> stdinPipes = 1
    /\ \A t \in Threads :
          (ret[t].op = "stdinPipe" /\ ret[t].err = "nil") => ret[t].sink = 1

\* stdinPipe() has been called twice in a row before start()
C21_Witness ==
    /\ ~calledStart
    /\ pc[Main] = "idle"
    /\ ret[Main].op = "stdinPipe"
    /\ ret[Main].err = "nil"
    /\ ret[Main].again
    /\ ret[Main].sink = 1

StartFailures ==
    {"errAlreadyCalledCleanup", "errStdinConflict", "errOpenFile", "errStart"}

\* start() (alone or within run) returned to t with a failure from before
\* the process was running
StartFailed(t) ==
    /\ pc[t] = "idle"
    /\ ret[t].op \in {"start", "run"}
    /\ ret[t].err \in StartFailures

\* C22: when start() has returned a failure from before the process was
\* running, every registered closer has been closed, an opened stdin pipe has
\* been closed, started is false and no exit waiter exists.
C22_StartFailureReleasesAll ==
    \A t \in Threads :
        StartFailed(t) =>
            /\ \A w \in Range(closers) : closeCalls[w] >= 1
            /\ ~stdinOpen
            /\ ~started
            /\ reaperPc = "none"
            /\ reaperCount = 0

\* C23: cleanupMu has one holder at a time; while start() is between its
\* check of calledCleanup and its return, calledCleanup is not set; once
\* calledCleanup is set no handle becomes started, no process is launched and
\* no handle is registered; and a start() that finds it set returns
\* errAlreadyCalledCleanup.
C23_StartExcludesCleanup ==
    /\ [](Cardinality({t \in Threads : pc[t] \in LockHolding}) <= 1)
    /\ [](\A t \in Threads :
            pc[t] \in {"startChecked", "cloneChecked"} => ~calledCleanup)
    /\ [][calledCleanup => /\ started' = started
                           /\ procCount' = procCount
                           /\ clones' = clones]_vars
    /\ [][\A t \in Threads :
            (pc[t] = "startLocked" /\ calledCleanup /\ pc'[t] # pc[t])
            => /\ pc'[t] = "idle"
               /\ ret'[t].op = "start"
               /\ ret'[t].err = "errAlreadyCalledCleanup"
               /\ ~started']_vars

\* start() waited for the cleanup to release cleanupMu and then failed
C23_Witness ==
    /\ calledCleanup
    /\ \A t \in Threads : pc[t] = "idle"
    /\ ret[Main].op = "start"
    /\ ret[Main].err = "errAlreadyCalledCleanup"
    /\ ~started
    /\ procCount = 0

\* the writes of a sink are whole: the first half of a write is followed by
\* the second half of the same write, and nothing else precedes a second half
Whole(seq) ==
    \A i \in 1..Len(seq) :
        /\ seq[i][3] = 1 =>
              (i = Len(seq) \/ seq[i + 1] = <<seq[i][1], seq[i][2], 2>>)
        /\ seq[i][3] = 2 =>
              (i > 1 /\ seq[i - 1] = <<seq[i][1], seq[i][2], 1>>)

\* C24: when both sink lists are non-empty the two MultiWriter writes are
\* never in progress together, and every sink, one registered on both
\* streams included, takes each write whole.
C24_StreamsExclude ==
    /\ locked => ~(copier["stdout"].pc = "write"
                   /\ copier["stderr"].pc = "write")
    /\ locked => \A w \in AllSinks : Whole(received[w])

\* a sink registered on both streams is in the middle of a stdout write while
\* the stderr copier waits for the mutex
C24_Witness ==
    /\ CallerSink \in Range(stdoutWriters) \cap Range(stderrWriters)
    /\ copier["stdout"].pc = "write"
    /\ copier["stdout"].half = 1
    /\ stdoutWriters[copier["stdout"].idx] = CallerSink
    /\ copier["stderr"].pc = "lock"
    /\ <<"stderr", 1, 2>> \in Range(received[CallerSink])

\* the stdout writes of the child that sink w has taken in full, by number
Nums(w) ==
    LET sel == SelectSeq(received[w],
                         LAMBDA e : e[1] = "stdout" /\ e[3] = 2)
    IN  [i \in 1..Len(sel) |-> sel[i][2]]

UpTo(k) == [i \in 1..k |-> i]

\* the stdout sinks other than the decoder
StdoutSinks == Range(stdoutWriters) \ {RecvWriterId}

\* the sinks the caller registers: they precede the decoder in the list
CallerRegistered == AllClosers \ {StdoutFile, StderrFile}

C31_PidSentinel ==
    \A t \in Threads :
        (pc[t] = "idle" /\ ret[t].op = "pid") =>
            /\ ret[t].err = "nil"
            /\ ret[t].pid = -1 <=> ~started
            /\ started => ret[t].pid = ProcessPid /\ procCount = 1

\* Pid() has been called after a failed start()
C31_Witness ==
    /\ pc[Main] = "idle"
    /\ ret[Main].op = "pid"
    /\ calledStart
    /\ ~started
    /\ ret[Main].pid = -1

EnvNames(env) == {e[1] : e \in env}

\* C32: the environment of the launched process has the watch entry exactly
\* when IgnoreParentExit is false and the exit-after entry exactly when
\* ExitAfter is not 0, whatever c.Vars held under those names; its other
\* entries are those of c.Vars; and start() leaves c.Vars as it was.
C32_ConventionEntries ==
    /\ [](started =>
            /\ envWatchParent \in EnvNames(procEnv) <=> ~IgnoreParentExit
            /\ ~IgnoreParentExit => <<envWatchParent, "1">> \in procEnv
            /\ envExitAfter \in EnvNames(procEnv) <=> ExitAfter # 0
            /\ ExitAfter # 0 =>
                  <<envExitAfter, DurationString(ExitAfter)>> \in procEnv
            /\ \A k \in EnvKeys \ {envWatchParent, envExitAfter} :
                  /\ k \in EnvNames(procEnv) <=> Vars[k] # NoVal
                  /\ Vars[k] # NoVal => <<k, Vars[k]>> \in procEnv
            /\ \A k \in EnvNames(procEnv) :
                  Cardinality({e \in procEnv : e[1] = k}) = 1)
    /\ [][Vars' = Vars]_vars

\* a process launched with the watch disabled and no duration, from a handle
\* whose c.Vars holds both names
C32_Witness ==
    /\ started
    /\ IgnoreParentExit
    /\ ExitAfter = 0
    /\ Vars[envWatchParent] # NoVal
    /\ Vars[envExitAfter] # NoVal
    /\ procEnv = {<<"HOME", "x">>}

\* the newline-terminated lines of the bytes s, cur being the line under way
RECURSIVE SplitLines(_, _)
SplitLines(s, cur) ==
    IF s = <<>> THEN <<>>
    ELSE IF Head(s) = LF THEN <<cur>> \o SplitLines(Tail(s), <<>>)
    ELSE SplitLines(Tail(s), Append(cur, Head(s)))

CompleteLines(s) == SplitLines(s, <<>>)

HasPrefix(line) ==
    Len(line) >= Len(msgPrefix) /\ SubSeq(line, 1, Len(msgPrefix)) = msgPrefix

\* what a line is to the handshake: "inert" without the prefix, else what
\* the bytes after the prefix decode to
LineKind(line) ==
    IF ~HasPrefix(line) THEN "inert"
    ELSE Unmarshal(SubSeq(line, Len(msgPrefix) + 1, Len(line)))

\* the handshake state and the error after the lines ls, line by line
RECURSIVE AfterLines(_, _)
AfterLines(h, ls) ==
    IF ls = <<>> \/ h.err # "nil" THEN h
    ELSE LET k == LineKind(Head(ls))
             h1 == IF k = "ready" THEN [h EXCEPT !.ready = TRUE]
                   ELSE IF k = "vars"
                   THEN [h EXCEPT !.vars = mergeMaps(@, UnmarshalVars)]
                   ELSE IF k = "unknown"
                   THEN [h EXCEPT !.err = "errUnknownType"]
                   ELSE IF k = "errUnmarshal"
                   THEN [h EXCEPT !.err = "errUnmarshal"]
                   ELSE h
         IN  AfterLines(h1, Tail(ls))

NoHandshake == [ready |-> FALSE, vars |-> EmptyMap, err |-> "nil"]

Handshaken == [ready |-> recvReady, vars |-> recvVars, err |-> recv.err]

\* C33: the ready flag, the variables and the error of the decoder are those
\* of the complete lines that are messages, taken in order: a complete line
\* without the prefix changes none of them, and a prefixed line that is not
\* JSON or has an unknown type changes only the error.
C33_UndecodableLinesInert ==
    /\ Handshaken = AfterLines(NoHandshake, CompleteLines(sent))
    /\ (\A i \in 1..Len(CompleteLines(sent)) :
            LineKind(CompleteLines(sent)[i]) = "inert")
          => Handshaken = NoHandshake
    /\ (\A i \in 1..Len(CompleteLines(sent)) :
            LineKind(CompleteLines(sent)[i])
                \in {"inert", "errUnmarshal", "unknown"})
          => ~recvReady /\ recvVars = EmptyMap

\* an empty line, a line shorter than the prefix and a line of another
\* beginning have been written, then a prefixed line that is not JSON
C33_Witness ==
    /\ sent = <<LF, "r", LF, "#", "!", LF>>
    /\ recv.err = "errUnmarshal"
    /\ ~recvReady
    /\ recvVars = EmptyMap

\* the decoder's state after one Write of all the bytes s
OneWrite(s) ==
    recvWriterBytes([buf |-> <<>>, readPrefix |-> FALSE, skipLine |-> FALSE,
                     err |-> "nil", ready |-> FALSE, vars |-> EmptyMap,
                     decoded |-> <<>>, signalled |-> FALSE], s)

\* C34: however the bytes written so far were cut into Writes, the ready
\* flag, the variables and the error are those of a single Write of all of
\* them.
C34_ChunkingIrrelevant ==
    /\ recvReady = OneWrite(sent).ready
    /\ recvVars = OneWrite(sent).vars
    /\ recv.err = OneWrite(sent).err

\* a vars message has been decoded from three Writes that cut it inside the
\* prefix and inside the body
C34_Witness ==
    /\ sent = <<"#", "!", "v", "v", LF>>
    /\ recvVars = UnmarshalVars
    /\ recv.err = "nil"
    /\ recv.buf = <<>>

ReadyLine == msgPrefix \o <<"r", "r">>

\* C35: the ready flag is set only when a complete line that is a ready
\* message has been written; an awaitReady that returns when the process has
\* exited without such a line returns errProcessExited.
C35_NewlineTerminatedOnly ==
    /\ recvReady =>
          \E i \in 1..Len(CompleteLines(sent)) :
              CompleteLines(sent)[i] = ReadyLine
    /\ (/\ pc[Main] = "idle"
        /\ ret[Main].op = "awaitReady"
        /\ started
        /\ \A i \in 1..Len(CompleteLines(sent)) :
              CompleteLines(sent)[i] # ReadyLine)
          => ret[Main].err = "errProcessExited" /\ ret[Main].exited

\* the child wrote a ready message without the newline and exited
C35_Witness ==
    /\ sent = ReadyLine
    /\ exited
    /\ ~recvReady
    /\ pc[Main] = "idle"
    /\ ret[Main].op = "awaitReady"
    /\ ret[Main].err = "errProcessExited"

\* C36: the lifecycle flags are ordered and never reset: started implies
\* calledStart, exited implies started, calledWait implies started, a
\* non-empty waitChan implies exited, a set recvReady or a non-empty recvVars
\* implies started; and none of calledStart, calledWait, started and exited
\* goes from true to false.
C36_LifecycleOrdered ==
    /\ [](/\ started => calledStart
          /\ exited => started
          /\ calledWait => started
          /\ waitChan # <<>> => exited
          /\ (recvReady \/ recvVars # EmptyMap) => started)
    /\ [][/\ calledStart => calledStart'
          /\ calledWait => calledWait'
          /\ started => started'
          /\ exited => exited']_vars

\* every flag is set, a message has been decoded and the exit waiter's send
\* has not been received yet
C36_Witness ==
    /\ calledStart /\ started /\ calledWait /\ exited
    /\ waitChan # <<>>
    /\ recvReady /\ recvVars # EmptyMap

\* start() has run and has not launched a process: it returned
\* errAlreadyCalledCleanup, errStdinConflict, errOpenFile or errStart
StartHasFailed == calledStart /\ ~started

\* C37: after start() has failed the handle never becomes started, every
\* later start() or run() returns errAlreadyCalledStart, and every later
\* wait(), awaitReady() or awaitVars() returns errDidNotCallStart.
C37_FailedStartTerminal ==
    [][StartHasFailed =>
          /\ calledStart' /\ ~started'
          /\ \A t \in Threads :
                ret'[t] # ret[t] =>
                   /\ ret'[t].op \in {"start", "run"}
                         => ret'[t].err = "errAlreadyCalledStart"
                   /\ ret'[t].op \in {"wait", "awaitReady", "awaitVars"}
                         => ret'[t].err = "errDidNotCallStart"]_vars

\* wait() has returned errDidNotCallStart on a handle whose start() failed
C37_Witness ==
    /\ StartHasFailed
    /\ pc[Main] = "idle"
    /\ ret[Main].op = "wait"
    /\ ret[Main].err = "errDidNotCallStart"

\* the exit waiter is about to close sink w of c.closers, or has closed it
Closing(w) ==
    /\ w \in Range(closers)
    /\ reaperPc = "close" \/ closeCalls[w] > 0

\* C38: from the moment the exit waiter closes the sinks of c.closers, the
\* copying of every stream that writes to such a sink has ended, and the
\* sink takes no further Write.
C38_NoWriteOnceClosed ==
    /\ [](\A w \in AllClosers, s \in Streams :
             Closing(w) /\ w \in Range(Writers(s))
                => copier[s].pc \in {"done", "failed"})
    /\ [][\A w \in AllClosers :
             Closing(w) => received'[w] = received[w]]_vars

\* a sink registered for both streams has taken writes of both and has been
\* closed
C38_Witness ==
    /\ CallerSink \in Range(stdoutWriters) \cap Range(stderrWriters)
    /\ closeCalls[CallerSink] = 1
    /\ \E i, j \in 1..Len(received[CallerSink]) :
          /\ received[CallerSink][i][1] = "stdout"
          /\ received[CallerSink][j][1] = "stderr"

\* the operations whose exported method does not call handleError
NoHookOps == {"none", "pid"}

\* C39: after every operation that goes through handleError, c.Err is the
\* error the operation returned (nil on success, also when c.Err held an
\* error before), and the error has been passed to the Shell exactly when it
\* is not nil and is not an ExitError on a handle with ExitErrorIsOk.
C39_ErrIsLastResult ==
    /\ [](\A t \in Threads :
             ret[t].op \notin NoHookOps =>
                /\ ret[t].Err = ret[t].err
                /\ ret[t].reported <=>
                      /\ ret[t].err # "nil"
                      /\ ~(ExitErrorIsOk /\ ret[t].err = "ExitError"))
    /\ [][\A t \in Threads :
             (/\ ret[t].Err # "nil"
              /\ ret'[t] # ret[t]
              /\ ret'[t].op \notin NoHookOps)
                => ret'[t].Err = ret'[t].err]_vars

\* Wait() has returned an ExitError on a handle with ExitErrorIsOk: c.Err
\* holds it and the Shell has not been told
C39_Witness ==
    /\ ExitErrorIsOk
    /\ pc[Main] = "idle"
    /\ ret[Main].op = "wait"
    /\ ret[Main].err = "ExitError"
    /\ ret[Main].Err = "ExitError"
    /\ ~ret[Main].reported

\* C40: addStdoutWriter and addStderrWriter called with os.Stdout or
\* os.Stderr return an error in every state of the handle and leave
\* stdoutWriters, stderrWriters and closers as they were; os.Stdout and
\* os.Stderr are never in c.closers, also when PropagateOutput has put them
\* in the sink lists, so closeClosers never closes them.
C40_ParentStreamsRejected ==
    /\ [][\A wc \in {OsStdout, OsStderr} :
             (addStdoutWriter(Main, wc) \/ addStderrWriter(Main, wc)) =>
                /\ ret'[Main].err # "nil"
                /\ UNCHANGED <<stdoutWriters, stderrWriters, closers>>]_vars
    /\ [](OsStdout \notin Range(closers) /\ OsStderr \notin Range(closers))

\* addStderrWriter(os.Stdout) has been rejected on a handle that was not
\* started
C40_Witness ==
    /\ ~calledStart
    /\ pc[Main] = "idle"
    /\ ret[Main].op = "addStderrWriter"
    /\ ret[Main].err = "errCloseStdout"
    /\ stdoutWriters = <<>> /\ stderrWriters = <<>> /\ closers = <<>>

====
